---- MODULE Spec2Model ----
(***************************************************************************)
(* node-share-folder: the access-control chain built by                   *)
(* ShareFolderHost.createInstance and the route handlers registered by    *)
(* ShareFolderHost.setupEndpoints (src/src/host.ts), with the helpers of  *)
(* helpers.ts they use.                                                    *)
(*                                                                         *)
(* Strings are sequences of one-character strings, so that trim, split,   *)
(* startsWith, Path.join and the filename sanitizer are computed as the   *)
(* code computes them.  The platform is POSIX (Path.sep = "/").           *)
(***************************************************************************)
EXTENDS Naturals, Integers, Sequences, FiniteSets, TLC

(***************************************************************************)
(* Bounds of the model.                                                    *)
(***************************************************************************)
\* longest request path (req.path), in segments
MaxSegments == 2
\* the file system holds at most this many entries besides the shared root
MaxFsEntries == 2
\* the entries of a listing a client is answered with
MaxListed == 3

\* the longest string normalizePath is tried on
MaxPathLen == 3

(***************************************************************************)
(* Strings                                                                 *)
(***************************************************************************)
SLASH == "/"
DOT == "."
SPACE == " "

\* JavaScript's undefined, where a string is expected (never equal to a string)
Undefined == << "<undefined>" >>

IsWhitespace(c) == c = SPACE

StartsWith(s, pre) ==
    /\ Len(pre) <= Len(s)
    /\ SubSeq(s, 1, Len(pre)) = pre

EndsWith(s, suf) ==
    /\ Len(suf) <= Len(s)
    /\ SubSeq(s, Len(s) - Len(suf) + 1, Len(s)) = suf

\* String.prototype.indexOf(c), 0-based, -1 when absent
IndexOf(s, c) ==
    IF \E i \in 1..Len(s) : s[i] = c
    THEN (CHOOSE i \in 1..Len(s) : s[i] = c /\ \A j \in 1..(i - 1) : s[j] # c) - 1
    ELSE -1

\* String.prototype.lastIndexOf(c), 0-based, -1 when absent
LastIndexOf(s, c) ==
    IF \E i \in 1..Len(s) : s[i] = c
    THEN (CHOOSE i \in 1..Len(s) : s[i] = c /\ \A j \in (i + 1)..Len(s) : s[j] # c) - 1
    ELSE -1

\* String.prototype.substr(from) and substr(0, n), 0-based
SubstrFrom(s, from) == SubSeq(s, from + 1, Len(s))
SubstrTo(s, n) == SubSeq(s, 1, n)

RECURSIVE TrimLeft(_)
TrimLeft(s) ==
    IF s # <<>> /\ IsWhitespace(Head(s)) THEN TrimLeft(Tail(s)) ELSE s

RECURSIVE TrimRight(_)
TrimRight(s) ==
    IF s # <<>> /\ IsWhitespace(s[Len(s)]) THEN TrimRight(SubSeq(s, 1, Len(s) - 1)) ELSE s

\* String.prototype.trim
Trim(s) == TrimRight(TrimLeft(s))

LowerChar(c) ==
    CASE c = "A" -> "a"
      [] c = "B" -> "b"
      [] OTHER -> c

\* String.prototype.toLowerCase
ToLowerCase(s) == [i \in 1..Len(s) |-> LowerChar(s[i])]

\* helpers.toStringSafe: undefined and null become ''
toStringSafe(val) == IF val = Undefined THEN <<>> ELSE val

\* helpers.normalizeString
normalizeString(val) == Trim(ToLowerCase(toStringSafe(val)))

\* A JavaScript value where a boolean is expected: a boolean or undefined
JsBoolean(b) == [t |-> "boolean", v |-> b]
JsUndefined == [t |-> "undefined", v |-> FALSE]

\* helpers.toBooleanSafe(val) with the default false: a boolean is kept,
\* undefined and null become the default
toBooleanSafe(val) == IF val.t = "boolean" THEN val.v ELSE FALSE

RECURSIVE SplitBy(_, _)
\* String.prototype.split(sep) for a one-character separator
SplitBy(s, sep) ==
    LET i == IndexOf(s, sep)
    IN IF i < 0 THEN << s >>
       ELSE << SubstrTo(s, i) >> \o SplitBy(SubstrFrom(s, i + 1), sep)

RECURSIVE JoinBy(_, _)
\* Array.prototype.join(sep)
JoinBy(parts, sep) ==
    IF parts = <<>> THEN <<>>
    ELSE IF Len(parts) = 1 THEN parts[1]
    ELSE parts[1] \o sep \o JoinBy(Tail(parts), sep)

(***************************************************************************)
(* Node's path module, POSIX flavour                                       *)
(***************************************************************************)
PathSep == << SLASH >>

RECURSIVE ResolveSegments(_, _)
\* path.normalize's walk over the segments of an absolute path: empty
\* segments and "." are dropped, ".." removes the last kept segment (and is
\* dropped at the root)
ResolveSegments(segs, acc) ==
    IF segs = <<>> THEN acc
    ELSE LET s == Head(segs)
         IN IF s = <<>> \/ s = << DOT >> THEN ResolveSegments(Tail(segs), acc)
            ELSE IF s = << DOT, DOT >>
                 THEN ResolveSegments(Tail(segs),
                                      IF acc = <<>> THEN acc ELSE SubSeq(acc, 1, Len(acc) - 1))
            ELSE ResolveSegments(Tail(segs), Append(acc, s))

\* Path.resolve(p) for an absolute p: normalized, no trailing separator
PathResolve(p) == PathSep \o JoinBy(ResolveSegments(SplitBy(p, SLASH), <<>>), PathSep)

\* Path.join(a, b) for an absolute a: normalize(a + '/' + b), which keeps a
\* trailing separator
PathJoin(a, b) ==
    LET joined == IF b = <<>> THEN a ELSE a \o PathSep \o b
        body == PathResolve(joined)
    IN IF EndsWith(joined, PathSep) /\ body # PathSep THEN body \o PathSep ELSE body

RECURSIVE WithoutTrailingSeparators(_)
\* dirname and basename pass over the separators at the end of a path
WithoutTrailingSeparators(p) ==
    IF Len(p) > 1 /\ p[Len(p)] = SLASH
    THEN WithoutTrailingSeparators(SubSeq(p, 1, Len(p) - 1))
    ELSE p

\* Path.dirname(p) for an absolute p
PathDirname(p) ==
    LET q == WithoutTrailingSeparators(p)
        i == LastIndexOf(q, SLASH)
    IN IF i <= 0 THEN PathSep ELSE SubstrTo(q, i)

\* Path.basename(p) for an absolute p
PathBasename(p) ==
    LET q == WithoutTrailingSeparators(p)
    IN SubstrFrom(q, LastIndexOf(q, SLASH) + 1)

(***************************************************************************)
(* helpers.normalizePath                                                   *)
(***************************************************************************)
RECURSIVE StripLeadingSlashes(_)
StripLeadingSlashes(p) ==
    IF StartsWith(Trim(p), PathSep)
    THEN StripLeadingSlashes(SubstrFrom(p, IndexOf(p, SLASH) + 1))
    ELSE p

RECURSIVE StripTrailingSlashes(_)
StripTrailingSlashes(p) ==
    IF EndsWith(Trim(p), PathSep)
    THEN StripTrailingSlashes(SubstrTo(p, LastIndexOf(p, SLASH)))
    ELSE p

\* normalizePath without its second loop
normalizePathKeepingTrailing(p0) ==
    LET p1 == toStringSafe(p0)
        p2 == IF Trim(p1) = << DOT >> THEN <<>> ELSE p1
        p3 == JoinBy(SplitBy(p2, SLASH), PathSep)
        p4 == StripLeadingSlashes(p3)
    IN IF ~StartsWith(Trim(p4), PathSep) THEN PathSep \o p4 ELSE p4

normalizePath(p0) ==
    LET p1 == toStringSafe(p0)
        p2 == IF Trim(p1) = << DOT >> THEN <<>> ELSE p1
        \* p.split(Path.sep).join('/') is the identity where Path.sep is '/'
        p3 == JoinBy(SplitBy(p2, SLASH), PathSep)
        p4 == StripTrailingSlashes(StripLeadingSlashes(p3))
    IN IF ~StartsWith(Trim(p4), PathSep) THEN PathSep \o p4 ELSE p4

\* normalizePath where Path.sep is '\' (the client on Windows)
normalizePathWin32(p0) ==
    LET p1 == toStringSafe(p0)
        p2 == IF Trim(p1) = << DOT >> THEN <<>> ELSE p1
        p3 == JoinBy(SplitBy(p2, "\\"), PathSep)
        p4 == StripTrailingSlashes(StripLeadingSlashes(p3))
    IN IF ~StartsWith(Trim(p4), PathSep) THEN PathSep \o p4 ELSE p4

(***************************************************************************)
(* The sanitize-filename package, as SANATIZE_PATH calls it (replacement   *)
(* ''): illegal characters are removed, a name of dots only becomes empty,  *)
(* trailing dots and spaces are removed.  The control characters and the   *)
(* reserved Windows device names (con, nul, ...) cannot be spelled with    *)
(* the characters of the model.                                            *)
(***************************************************************************)
IllegalChars == { "/", "?", "<", ">", "\\", ":", "*", "|", "\"" }

RECURSIVE RemoveIllegal(_)
RemoveIllegal(s) ==
    IF s = <<>> THEN <<>>
    ELSE IF Head(s) \in IllegalChars THEN RemoveIllegal(Tail(s))
    ELSE << Head(s) >> \o RemoveIllegal(Tail(s))

RECURSIVE RemoveWindowsTrailing(_)
RemoveWindowsTrailing(s) ==
    IF s # <<>> /\ s[Len(s)] \in { DOT, SPACE }
    THEN RemoveWindowsTrailing(SubSeq(s, 1, Len(s) - 1))
    ELSE s

SanitizeFilename(input) ==
    LET a == RemoveIllegal(input)
        b == IF a # <<>> /\ \A i \in 1..Len(a) : a[i] = DOT THEN <<>> ELSE a
    IN RemoveWindowsTrailing(b)

(***************************************************************************)
(* Base64, as the credential gate decodes it:                              *)
(* new Buffer(text, 'base64').toString('utf8').  Decoding stops at the     *)
(* first padding character; four characters give three bytes.              *)
(***************************************************************************)
B64Chars ==
    << "A", "B", "C", "D", "E", "F", "G", "H", "I", "J", "K", "L", "M",
       "N", "O", "P", "Q", "R", "S", "T", "U", "V", "W", "X", "Y", "Z",
       "a", "b", "c", "d", "e", "f", "g", "h", "i", "j", "k", "l", "m",
       "n", "o", "p", "q", "r", "s", "t", "u", "v", "w", "x", "y", "z",
       "0", "1", "2", "3", "4", "5", "6", "7", "8", "9", "+", "/" >>

B64Value(c) == (CHOOSE i \in 1..Len(B64Chars) : B64Chars[i] = c) - 1

IsB64Char(c) == \E i \in 1..Len(B64Chars) : B64Chars[i] = c

RECURSIVE B64Payload(_)
\* the characters before the first one that is not of the alphabet ('=')
B64Payload(s) ==
    IF s = <<>> \/ ~IsB64Char(Head(s)) THEN <<>>
    ELSE << Head(s) >> \o B64Payload(Tail(s))

RECURSIVE B64Bytes(_)
B64Bytes(s) ==
    IF Len(s) < 2 THEN <<>>
    ELSE LET v1 == B64Value(s[1])
             v2 == B64Value(s[2])
             b1 == (v1 * 4 + v2 \div 16) % 256
         IN IF Len(s) = 2 THEN << b1 >>
            ELSE LET v3 == B64Value(s[3])
                     b2 == ((v2 % 16) * 16 + v3 \div 4) % 256
                 IN IF Len(s) = 3 THEN << b1, b2 >>
                    ELSE LET b3 == ((v3 % 4) * 64 + B64Value(s[4])) % 256
                         IN << b1, b2, b3 >> \o B64Bytes(SubSeq(s, 5, Len(s)))

\* Buffer.toString('utf8') on the bytes of the characters the model uses
CharOfByte(b) ==
    CASE b = 32 -> " "
      [] b = 58 -> ":"
      [] b = 65 -> "A"
      [] b = 66 -> "B"
      [] b = 97 -> "a"
      [] b = 98 -> "b"
      [] OTHER -> "#"

Base64Decode(s) ==
    LET bytes == B64Bytes(B64Payload(s))
    IN [i \in 1..Len(bytes) |-> CharOfByte(bytes[i])]

(***************************************************************************)
(* The ip package, as the command line's request validator uses it.  An    *)
(* IPv4 address is its four octets; a CIDR range is a network address and  *)
(* a prefix length.                                                        *)
(***************************************************************************)
\* IP.isLoopback: 127.x.x.x
IsLoopback(addr) == addr[1] = 127

Pow2(n) == CASE n = 0 -> 1 [] n = 1 -> 2 [] n = 2 -> 4 [] n = 3 -> 8 [] n = 4 -> 16
             [] n = 5 -> 32 [] n = 6 -> 64 [] n = 7 -> 128 [] OTHER -> 256

\* IP.cidrSubnet(cidr).contains(addr): the first len bits agree
CidrContains(cidr, addr) ==
    LET full == cidr.len \div 8
        rest == cidr.len % 8
    IN /\ \A i \in 1..full : addr[i] = cidr.net[i]
       /\ rest > 0 => addr[full + 1] \div Pow2(8 - rest) = cidr.net[full + 1] \div Pow2(8 - rest)

(***************************************************************************)
(* State                                                                   *)
(***************************************************************************)
VARIABLES
    options,        \* ShareFolderHostOptions: read-only while the host runs
    rootDir,        \* createInstance's rootDir, an absolute path
    fsExistsThrows, \* the runtime: does fs.exists without a callback throw?
    fs,             \* the file system: absolute path -> [type, data]
    req,            \* the requests being handled: slot -> request
    call,           \* the call of a ShareFolderClient method in progress
    host            \* the ShareFolderHost object: _server, its servers, start()/stop() calls

vars == << options, rootDir, fsExistsThrows, fs, req, call, host >>

\* the slots of req, and those the specifications below put requests in
AllSlots == { 1, 2 }
Slots == { 1 }

Methods == { "GET", "POST", "PUT", "DELETE", "PATCH" }

\* realm of createInstance: options.realm trimmed, 'node-share-folder' when empty
DefaultRealm == << "node-share-folder" >>
Realm == IF Trim(toStringSafe(options.realm)) = <<>> THEN DefaultRealm
         ELSE Trim(toStringSafe(options.realm))

NoAccount == <<>>

\* no call of a client method is in progress.  A call holds the client it
\* is made on (the build of the client, its ssl flag and its account), the
\* method and its arguments, the path the method hands to request(), the
\* requests written to the transport, the response that came back and the
\* way the returned promise settled.
IdleCall ==
    [ pc |-> "idle", build |-> "lib", platform |-> "posix", ssl |-> FALSE,
      account |-> NoAccount,
      method |-> "list", path |-> <<>>, normalized |-> <<>>, data |-> <<>>,
      sent |-> <<>>, response |-> <<>>, outcome |-> <<>> ]

\* Bounds of the lifecycle: start()/stop() calls in progress at once, and
\* the servers start() has created that are not yet forgotten.
MaxCalls == 3
MaxServers == 2
LifecycleCalls == 1..MaxCalls
Servers == 1..MaxServers

\* the private field _server before the first start(): nil
NoServer == 0

\* a start()/stop() promise nobody has asked for. completedInvoked is the
\* closure flag of createCompletedAction; invoked counts the calls of the
\* completed action, settles the calls of resolve and reject it made.
IdleLifecycleCall ==
    [ op |-> "none", pc |-> "idle", server |-> NoServer,
      completedInvoked |-> FALSE, invoked |-> 0, settles |-> 0,
      result |-> "pending", onError |-> FALSE, sawRunning |-> FALSE ]

\* a ShareFolderHost after construction: no server, no call
IdleHost ==
    [ _server |-> NoServer,
      servers |-> [ s \in Servers |-> "none" ],
      calls |-> [ c \in LifecycleCalls |-> IdleLifecycleCall ] ]

\* a slot with no request
IdleRequest ==
    [ pc |-> "idle", method |-> "GET", path |-> PathSep, info |-> FALSE,
      remoteAddress |-> << 127, 0, 0, 1 >>, authorization |-> Undefined,
      body |-> <<>>,
      \* req['__vars']
      hasVars |-> FALSE, account |-> NoAccount,
      \* locals of the gates
      canConnect |-> FALSE, username |-> Undefined, password |-> Undefined,
      isValid |-> FALSE,
      \* the response
      socketEnded |-> FALSE, status |-> 0, sent |-> 0, headers |-> {},
      respBody |-> <<>>,
      \* history: the gates passed, the gate that ended the request, what the
      \* account validator was called with, the root as the root check found it
      passed |-> <<>>, endedBy |-> "none", validatedWith |-> <<>>,
      rootSeen |-> "none",
      \* locals of the route handlers
      REQUESTED_PATH |-> <<>>, target |-> <<>>, stat |-> [type |-> "none", size |-> 0],
      list |-> <<>>, result |-> <<>>,
      \* history: the paths the handler passed to file system calls, and the
      \* file system as the request found it
      fsCalls |-> {}, before |-> <<>> ]

(***************************************************************************)
(* The file system                                                         *)
(***************************************************************************)
Dir == [type |-> "d", data |-> <<>>]
File(data) == [type |-> "f", data |-> data]

\* fs.exists / FSExtra.exists with a callback
Exists(p) == p = PathSep \/ p \in DOMAIN fs

IsDirectory(p) == p = PathSep \/ (p \in DOMAIN fs /\ fs[p].type = "d")

IsFile(p) == p \in DOMAIN fs /\ fs[p].type = "f"

RootState == IF IsDirectory(rootDir) THEN "dir"
             ELSE IF Exists(rootDir) THEN "file" ELSE "missing"

\* p is q or lies below q
IsWithin(p, q) == p = q \/ StartsWith(p, IF q = PathSep THEN q ELSE q \o PathSep)

(***************************************************************************)
(* Inputs                                                                  *)
(***************************************************************************)
Loopback == << 127, 0, 0, 1 >>
InsideAddress == << 192, 168, 1, 7 >>
OutsideAddress == << 10, 0, 0, 9 >>
RemoteAddresses == { Loopback, InsideAddress, OutsideAddress }

Lan23 == [net |-> << 192, 168, 0, 0 >>, len |-> 23]
Host32 == [net |-> << 10, 0, 0, 1 >>, len |-> 32]
AllowLists == { {}, { Lan23, Host32 } }

\* 'Basic ' and the base64 of: ":", "a:a", "A:a", "a:b", "a"
BasicEmptyPair == << "B", "a", "s", "i", "c", " ", "O", "g", "=", "=" >>
BasicAA == << "B", "a", "s", "i", "c", " ", "Y", "T", "p", "h" >>
BasicUpperAA == << "b", "a", "s", "i", "c", " ", "Q", "T", "p", "h" >>
BasicAB == << "B", "a", "s", "i", "c", " ", "Y", "T", "p", "i" >>
BasicNoColon == << "B", "a", "s", "i", "c", " ", "Y", "Q", "=", "=" >>
BearerToken == << "B", "e", "a", "r", "e", "r", " ", "a" >>
AuthorizationHeaders ==
    { Undefined, BasicEmptyPair, BasicAA, BasicUpperAA, BasicAB, BasicNoColon, BearerToken }

\* the request validator of the command line over its ALLOWED_IPS, or none
RequestValidators ==
    { [configured |-> FALSE, allowed |-> {}] }
        \cup { [configured |-> TRUE, allowed |-> a] : a \in AllowLists }

\* the account validator of the command line over its user and password, or none
AccountValidators ==
    { [configured |-> FALSE, user |-> Undefined, password |-> Undefined],
      [configured |-> TRUE, user |-> Undefined, password |-> Undefined],
      [configured |-> TRUE, user |-> << "a" >>, password |-> << "a" >>] }

OptionSets ==
    [ requestValidator : RequestValidators,
      accountValidator : AccountValidators,
      canWrite : { JsBoolean(TRUE), JsBoolean(FALSE), JsUndefined },
      realm : { Undefined, << " ", "a" >> } ]

\* a root whose name the filename sanitizer leaves alone, and one it changes
PlainRoot == << "/", "r" >>
DottedRoot == << "/", "r", "." >>
RootDirs == { PlainRoot, DottedRoot }

(***************************************************************************)
(* The validators the command line configures                              *)
(***************************************************************************)
\* a request validator that knows no exemption of the loopback address
RequestValidatorWithoutLoopback(validator, remoteAddress) ==
    IF Cardinality(validator.allowed) < 1 THEN JsBoolean(TRUE)
    ELSE JsBoolean(\E aip \in validator.allowed : CidrContains(aip, remoteAddress))

\* requestValidator of the command line
RequestValidator(validator, remoteAddress) ==
    IF Cardinality(validator.allowed) < 1 THEN JsBoolean(TRUE)
    ELSE IF IsLoopback(remoteAddress) THEN JsBoolean(TRUE)
    ELSE JsBoolean(\E aip \in validator.allowed : CidrContains(aip, remoteAddress))

\* accountValidator of the command line
AccountValidator(validator, un, pwd) ==
    JsBoolean(un = validator.user /\ pwd = validator.password)

(***************************************************************************)
(* The credential pair the Basic Auth middleware extracts from a request's *)
(* Authorization header: << username, password >>.  Without a header of    *)
(* the Basic scheme both stay unassigned.                                  *)
(***************************************************************************)
ExtractCredentials(header) ==
    LET AUTHORIZATION == Trim(toStringSafe(header))
    IN IF StartsWith(ToLowerCase(AUTHORIZATION), << "b", "a", "s", "i", "c", " " >>)
       THEN LET USERNAME_AND_PASSWORD == Base64Decode(Trim(SubstrFrom(AUTHORIZATION, 6)))
                SEP == IndexOf(USERNAME_AND_PASSWORD, ":")
                username == IF SEP > -1 THEN SubstrTo(USERNAME_AND_PASSWORD, SEP)
                            ELSE USERNAME_AND_PASSWORD
                password == IF SEP > -1 THEN SubstrFrom(USERNAME_AND_PASSWORD, SEP + 1)
                            ELSE Undefined
            IN << normalizeString(username), toStringSafe(password) >>
       ELSE << Undefined, Undefined >>

(***************************************************************************)
(* A request arrives at the application createInstance built.              *)
(***************************************************************************)
Arrive(r) ==
    /\ req[r].pc = "idle"
    /\ \E m \in Methods, a \in RemoteAddresses, h \in AuthorizationHeaders :
          req' = [req EXCEPT ![r] = [IdleRequest EXCEPT !.pc = "ipCheck", !.method = m,
                                                        !.remoteAddress = a,
                                                        !.authorization = h]]
    /\ UNCHANGED << options, rootDir, fsExistsThrows, fs, call, host >>

(***************************************************************************)
(* Gate 1, "IP check": the request validator decides whether the request   *)
(* may connect; without one every request may.                             *)
(***************************************************************************)
IpCheck(r) ==
    /\ req[r].pc = "ipCheck"
    /\ IF options.requestValidator.configured
       THEN req' = [req EXCEPT ![r].pc = "ipCheckAwait",
                               ![r].canConnect =
                                   toBooleanSafe(RequestValidator(options.requestValidator,
                                                                  req[r].remoteAddress))]
       ELSE req' = [req EXCEPT ![r].pc = "headers", ![r].canConnect = TRUE,
                               ![r].passed = Append(@, "network")]
    /\ UNCHANGED << options, rootDir, fsExistsThrows, fs, call, host >>

\* a network gate that ends the socket and calls next() all the same
IpCheckResumeContinuing(r) ==
    /\ req[r].pc = "ipCheckAwait"
    /\ IF req[r].canConnect
       THEN req' = [req EXCEPT ![r].pc = "headers", ![r].passed = Append(@, "network")]
       ELSE req' = [req EXCEPT ![r].pc = "headers", ![r].socketEnded = TRUE,
                               ![r].endedBy = "network"]
    /\ UNCHANGED << options, rootDir, fsExistsThrows, fs, call, host >>

\* after the await of the validator's result: next(), or req.socket.end()
IpCheckResume(r) ==
    /\ req[r].pc = "ipCheckAwait"
    /\ IF req[r].canConnect
       THEN req' = [req EXCEPT ![r].pc = "headers", ![r].passed = Append(@, "network")]
       ELSE req' = [req EXCEPT ![r].pc = "closed", ![r].socketEnded = TRUE,
                               ![r].endedBy = "network"]
    /\ UNCHANGED << options, rootDir, fsExistsThrows, fs, call, host >>

(***************************************************************************)
(* "headers": the request's own __vars and the two fixed response headers  *)
(***************************************************************************)
Headers(r) ==
    /\ req[r].pc = "headers"
    /\ req' = [req EXCEPT ![r].pc = "basicAuth", ![r].hasVars = TRUE,
                          ![r].headers = @ \cup { << "X-Powered-By", << "node-share-folder (Express)" >> >>,
                                                  << "X-TM-MK", << "1979-09-05T23:09:00.000Z" >> >> }]
    /\ UNCHANGED << options, rootDir, fsExistsThrows, fs, call, host >>

(***************************************************************************)
(* Gate 2, "Basic Auth"                                                    *)
(***************************************************************************)
BasicAuth(r) ==
    /\ req[r].pc = "basicAuth"
    /\ IF options.accountValidator.configured
       THEN LET pair == ExtractCredentials(req[r].authorization)
            IN req' = [req EXCEPT ![r].pc = "basicAuthAwait",
                                  ![r].username = pair[1], ![r].password = pair[2],
                                  ![r].validatedWith = pair,
                                  ![r].isValid =
                                      toBooleanSafe(AccountValidator(options.accountValidator,
                                                                     pair[1], pair[2]))]
       ELSE req' = [req EXCEPT ![r].pc = "readOnly", ![r].passed = Append(@, "credential")]
    /\ UNCHANGED << options, rootDir, fsExistsThrows, fs, call, host >>

\* a Basic Auth middleware that answers 401 without the challenge header
BasicAuthResumeWithoutChallenge(r) ==
    /\ req[r].pc = "basicAuthAwait"
    /\ IF req[r].isValid
       THEN req' = [req EXCEPT ![r].pc = "readOnly",
                               ![r].account = << req[r].username, req[r].password >>,
                               ![r].passed = Append(@, "credential")]
       ELSE req' = [req EXCEPT ![r].pc = "done", ![r].status = 401, ![r].sent = @ + 1,
                               ![r].endedBy = "credential"]
    /\ UNCHANGED << options, rootDir, fsExistsThrows, fs, call, host >>

\* a Basic Auth middleware that keeps the account on one object shared by
\* the requests in flight instead of on the request's own __vars
BasicAuthResumeSharedVars(r) ==
    /\ req[r].pc = "basicAuthAwait"
    /\ IF req[r].isValid
       THEN req' = [s \in AllSlots |->
                       IF s = r
                       THEN [req[r] EXCEPT !.pc = "readOnly",
                                           !.account = << req[r].username, req[r].password >>,
                                           !.passed = Append(@, "credential")]
                       ELSE IF req[s].hasVars
                       THEN [req[s] EXCEPT !.account = << req[r].username, req[r].password >>]
                       ELSE req[s]]
       ELSE req' = [req EXCEPT ![r].pc = "done", ![r].status = 401, ![r].sent = @ + 1,
                               ![r].headers = @ \cup { << "WWW-Authenticate",
                                                          << "Basic realm=" >> \o Trim(Realm) >> },
                               ![r].endedBy = "credential"]
    /\ UNCHANGED << options, rootDir, fsExistsThrows, fs, call, host >>

\* after the await of the validator's result
BasicAuthResume(r) ==
    /\ req[r].pc = "basicAuthAwait"
    /\ IF req[r].isValid
       THEN req' = [req EXCEPT ![r].pc = "readOnly",
                               ![r].account = << req[r].username, req[r].password >>,
                               ![r].passed = Append(@, "credential")]
       ELSE req' = [req EXCEPT ![r].pc = "done", ![r].status = 401, ![r].sent = @ + 1,
                               ![r].headers = @ \cup { << "WWW-Authenticate",
                                                          << "Basic realm=" >> \o Trim(Realm) >> },
                               ![r].endedBy = "credential"]
    /\ UNCHANGED << options, rootDir, fsExistsThrows, fs, call, host >>

(***************************************************************************)
(* Gate 3, "check read-only mode"                                          *)
(***************************************************************************)
\* normalizeString(req.method): the method names are single tokens here
LowerMethod(method) ==
    CASE method = "GET" -> "get"
      [] method = "POST" -> "post"
      [] method = "PUT" -> "put"
      [] method = "DELETE" -> "delete"
      [] method = "PATCH" -> "patch"
      [] OTHER -> method

\* a list of the writing methods that lacks 'delete'
IsWriteMethodWithoutDelete(method) == LowerMethod(method) \in { "patch", "post", "put" }

IsWriteMethod(method) == LowerMethod(method) \in { "delete", "patch", "post", "put" }

\* a read-only middleware registered behind the root check: the state of the
\* root is answered first
ReadOnlyBehindRootCheck(r) ==
    /\ req[r].pc = "readOnly"
    /\ IF ~IsDirectory(rootDir)
       THEN req' = [req EXCEPT ![r].pc = "done", ![r].status = 503, ![r].sent = @ + 1,
                               ![r].endedBy = "root"]
       ELSE IF ~toBooleanSafe(options.canWrite) /\ IsWriteMethod(req[r].method)
       THEN req' = [req EXCEPT ![r].pc = "done", ![r].status = 403, ![r].sent = @ + 1,
                               ![r].endedBy = "write"]
       ELSE req' = [req EXCEPT ![r].pc = "rootCheck", ![r].passed = Append(@, "write")]
    /\ UNCHANGED << options, rootDir, fsExistsThrows, fs, call, host >>

ReadOnly(r) ==
    /\ req[r].pc = "readOnly"
    /\ IF ~toBooleanSafe(options.canWrite) /\ IsWriteMethod(req[r].method)
       THEN req' = [req EXCEPT ![r].pc = "done", ![r].status = 403, ![r].sent = @ + 1,
                               ![r].endedBy = "write"]
       ELSE req' = [req EXCEPT ![r].pc = "rootCheck", ![r].passed = Append(@, "write")]
    /\ UNCHANGED << options, rootDir, fsExistsThrows, fs, call, host >>

(***************************************************************************)
(* Gate 4, the root check: `if (await FS.exists(rootDir))`.  FS is Node's  *)
(* fs module, whose exists() takes a callback and returns no promise:      *)
(* called without one it returns undefined (Node before 10) or throws      *)
(* ERR_INVALID_CALLBACK (Node 10 and later).  A throw inside the async     *)
(* middleware rejects its promise, which Express 4 does not observe: no    *)
(* response is sent.                                                       *)
(***************************************************************************)
\* what FS.exists(rootDir) returns where it does not throw
FsExistsWithoutCallback == JsUndefined

\* JavaScript's truthiness of such a value
Truthy(val) == val.t = "boolean" /\ val.v

RootCheck(r) ==
    /\ req[r].pc = "rootCheck"
    /\ IF fsExistsThrows
       THEN req' = [req EXCEPT ![r].pc = "failed", ![r].rootSeen = RootState,
                               ![r].endedBy = "root"]
       ELSE req' = [req EXCEPT ![r].pc = "rootCheckAwait", ![r].rootSeen = RootState]
    /\ UNCHANGED << options, rootDir, fsExistsThrows, fs, call, host >>

\* after the await: the stat of the root and next(), or 503
RootCheckResume(r) ==
    /\ req[r].pc = "rootCheckAwait"
    /\ IF Truthy(FsExistsWithoutCallback) /\ IsDirectory(rootDir)
       THEN req' = [req EXCEPT ![r].pc = "route", ![r].passed = Append(@, "root")]
       ELSE req' = [req EXCEPT ![r].pc = "done", ![r].status = 503, ![r].sent = @ + 1,
                               ![r].endedBy = "root"]
    /\ UNCHANGED << options, rootDir, fsExistsThrows, fs, call, host >>

(***************************************************************************)
(* The request is over (answered, its connection ended, or left without an *)
(* answer); the slot takes the next one.                                   *)
(***************************************************************************)
IsOver(q) == q.pc \in { "done", "closed", "failed" }

Finish(r) ==
    /\ IsOver(req[r])
    /\ req' = [req EXCEPT ![r] = IdleRequest]
    /\ UNCHANGED << options, rootDir, fsExistsThrows, fs, call, host >>

(***************************************************************************)
(* The environment: the shared root is removed, created again, or replaced *)
(* by a file while the host runs.                                          *)
(***************************************************************************)
\* a removal of the entry p alone, what lies below it left behind
RemoveEntryAlone(p) == [q \in DOMAIN fs \ { p } |-> fs[q]]

RemoveTree(p) == [q \in { x \in DOMAIN fs : ~IsWithin(x, p) } |-> fs[q]]

AddEntry(p, e) == [q \in DOMAIN fs \cup { p } |-> IF q = p THEN e ELSE fs[q]]

EnvRemoveRoot ==
    /\ Exists(rootDir)
    /\ fs' = RemoveTree(rootDir)
    /\ UNCHANGED << options, rootDir, fsExistsThrows, req, call, host >>

EnvCreateRoot ==
    /\ ~Exists(rootDir)
    /\ \E e \in { Dir, File(<<>>) } : fs' = AddEntry(rootDir, e)
    /\ UNCHANGED << options, rootDir, fsExistsThrows, req, call, host >>

(***************************************************************************)
(* The host as createInstance builds it                                    *)
(***************************************************************************)
Init ==
    /\ options \in OptionSets
    /\ rootDir = PlainRoot
    /\ fsExistsThrows \in BOOLEAN
    /\ fs = [p \in { rootDir } |-> Dir]
    /\ req = [r \in AllSlots |-> IdleRequest]
    /\ call = IdleCall
    /\ host = IdleHost

Next ==
    \/ \E r \in Slots : Arrive(r)
    \/ \E r \in Slots : IpCheck(r)
    \/ \E r \in Slots : IpCheckResume(r)
    \/ \E r \in Slots : Headers(r)
    \/ \E r \in Slots : BasicAuth(r)
    \/ \E r \in Slots : BasicAuthResume(r)
    \/ \E r \in Slots : ReadOnly(r)
    \/ \E r \in Slots : RootCheck(r)
    \/ \E r \in Slots : RootCheckResume(r)
    \/ \E r \in Slots : Finish(r)
    \/ EnvRemoveRoot
    \/ EnvCreateRoot

Spec == Init /\ [][Next]_vars

(***************************************************************************)
(* File system calls of the route handlers                                 *)
(***************************************************************************)
\* the paths from the first segment of p down to p itself
PathAndAncestors(p) ==
    { SubstrTo(p, i) : i \in { j \in 2..Len(p) : j = Len(p) \/ p[j + 1] = SLASH } }

\* FSExtra.mkdirs(p) fails when p or one of its ancestors is a file
MkdirsFails(p) == \E q \in PathAndAncestors(p) : IsFile(q)

\* a mkdir that creates p alone, without its missing ancestors
MkdirWithoutParents(p) == AddEntry(p, Dir)

\* FSExtra.mkdirs(p): p and every missing ancestor become directories
Mkdirs(p) ==
    [q \in DOMAIN fs \cup PathAndAncestors(p) |-> IF q \in DOMAIN fs THEN fs[q] ELSE Dir]

\* FSExtra.writeFile(p, data) fails when p is a directory or p's parent is none
WriteFileFails(p) == IsDirectory(p) \/ ~IsDirectory(PathDirname(p))

\* fs.Stats of an existing entry; a directory's size is taken as 0
StatOf(p) ==
    IF p = PathSep THEN [type |-> "d", size |-> 0]
    ELSE [type |-> fs[p].type, size |-> Len(fs[p].data)]

\* the names FSExtra.readdir(p) yields
ChildrenOf(p) ==
    { PathBasename(q) : q \in { x \in DOMAIN fs : x # p /\ x # PathSep /\ PathDirname(x) = p } }

\* every order of a finite set, as sequences
Orders(S) ==
    { f \in [1..Cardinality(S) -> S] : \A i, j \in 1..Cardinality(S) : i # j => f[i] # f[j] }

(***************************************************************************)
(* setupEndpoints: IS_OUTSIDE, SANATIZE_PATH, TO_DIRECTORY_ENTRY           *)
(***************************************************************************)
\* an IS_OUTSIDE that tests the concatenation of root and request path, its
\* '..' segments unresolved
IS_OUTSIDE_Unresolved(requestedPath) ==
    LET FILE_OR_FOLDER == rootDir \o PathSep \o normalizePath(requestedPath)
    IN rootDir # FILE_OR_FOLDER /\ ~StartsWith(FILE_OR_FOLDER, rootDir \o PathSep)

IS_OUTSIDE(requestedPath) ==
    LET FILE_OR_FOLDER == PathResolve(PathJoin(rootDir, normalizePath(requestedPath)))
    IN rootDir # FILE_OR_FOLDER /\ ~StartsWith(FILE_OR_FOLDER, rootDir \o PathSep)

SANATIZE_PATH(p) ==
    PathResolve(PathJoin(PathDirname(p), SanitizeFilename(PathBasename(p))))

DirectoryEntryType_Directory == 1
DirectoryEntryType_File == 2

\* an encoding that takes every entry for a file
TO_DIRECTORY_ENTRY_AsFile(stat, n) ==
    [ name |-> n, size |-> stat.size, type |-> DirectoryEntryType_File ]

TO_DIRECTORY_ENTRY(stat, n) ==
    [ name |-> n, size |-> stat.size,
      type |-> IF stat.type = "d" THEN DirectoryEntryType_Directory
               ELSE DirectoryEntryType_File ]

\* resp.status(code).send() without a body
SendStatus(q, code) ==
    [q EXCEPT !.pc = "done", !.status = code, !.sent = @ + 1]

\* SEND_JSON(resp, data)
SEND_JSON(q, data) ==
    [q EXCEPT !.pc = "done", !.status = 200, !.sent = @ + 1,
              !.headers = @ \cup { << "Content-Type", << "application/json; charset=utf8" >> >> },
              !.respBody = << "json", data >>]

\* a rejected promise of an async handler: Express 4 sends nothing
Rejected(q) == [q EXCEPT !.pc = "failed"]

\* the handler passes path p to a file system call
Calling(q, p) == [q EXCEPT !.fsCalls = @ \cup { p }]

(***************************************************************************)
(* The route handlers.  Each action is the code from one await to the     *)
(* next; the result of an awaited file system call is the file system's    *)
(* state when the handler resumes.                                         *)
(***************************************************************************)
RequestStep(r, q) ==
    /\ req' = [req EXCEPT ![r] = q]
    /\ UNCHANGED << options, rootDir, fsExistsThrows, fs, call, host >>

RequestAndFsStep(r, q, newFs) ==
    /\ req' = [req EXCEPT ![r] = q]
    /\ fs' = newFs
    /\ UNCHANGED << options, rootDir, fsExistsThrows, call, host >>

\* the start of every handler: the 400 answers, or the call of EXISTS
HandlerStart(r, method, rootIsInvalid, nextPc) ==
    /\ req[r].pc = "route"
    /\ req[r].method = method
    /\ LET REQUESTED_PATH == normalizePath(req[r].path)
           target == SANATIZE_PATH(PathJoin(rootDir, REQUESTED_PATH))
       IN IF IS_OUTSIDE(REQUESTED_PATH) \/ (rootIsInvalid /\ REQUESTED_PATH = PathSep)
          THEN RequestStep(r, SendStatus(req[r], 400))
          ELSE RequestStep(r, Calling([req[r] EXCEPT !.pc = nextPc,
                                                     !.REQUESTED_PATH = REQUESTED_PATH,
                                                     !.target = target], target))

(***************************************************************************)
(* app.get('/*'): directory list, file content or info                     *)
(***************************************************************************)
GetStart(r) == HandlerStart(r, "GET", FALSE, "getExists")

GetAfterExists(r) ==
    /\ req[r].pc = "getExists"
    /\ IF ~Exists(req[r].target)
       THEN RequestStep(r, SendStatus(req[r], 404))
       ELSE IF req[r].info
       THEN RequestStep(r, Calling([req[r] EXCEPT !.pc = "getInfoStat"], req[r].target))
       ELSE RequestStep(r, Calling([req[r] EXCEPT !.pc = "getStat"], req[r].target))

\* GET_DIRECTORY_ENTRY with an explicit second argument
GetInfoStat(r) ==
    /\ req[r].pc = "getInfoStat"
    /\ IF ~Exists(req[r].target)
       THEN RequestStep(r, Rejected(req[r]))
       ELSE RequestStep(r, SEND_JSON(req[r],
                TO_DIRECTORY_ENTRY(StatOf(req[r].target),
                                   toStringSafe(IF req[r].REQUESTED_PATH = PathSep
                                                THEN Undefined
                                                ELSE PathBasename(req[r].target)))))

GetStat(r) ==
    /\ req[r].pc = "getStat"
    /\ IF ~Exists(req[r].target)
       THEN RequestStep(r, Rejected(req[r]))
       ELSE IF IsDirectory(req[r].target)
       THEN RequestStep(r, Calling([req[r] EXCEPT !.pc = "getReaddir",
                                                  !.headers = @ \cup { << "x-share-folder-type", << "d" >> >> }],
                                   req[r].target))
       ELSE RequestStep(r, Calling([req[r] EXCEPT !.pc = "getReadFile",
                                                  !.headers = @ \cup { << "x-share-folder-type", << "f" >> >> }],
                                   req[r].target))

\* FSExtra.readdir resolves; the loop calls stat for the first name, or the
\* empty list is answered 204
GetReaddir(r) ==
    /\ req[r].pc = "getReaddir"
    /\ IF ~IsDirectory(req[r].target)
       THEN RequestStep(r, Rejected(req[r]))
       ELSE \E LIST \in Orders(ChildrenOf(req[r].target)) :
               IF LIST = <<>>
               THEN RequestStep(r, SendStatus(req[r], 204))
               ELSE RequestStep(r, Calling([req[r] EXCEPT !.pc = "getListStat", !.list = LIST,
                                                          !.result = <<>>],
                                           PathResolve(PathJoin(req[r].target, LIST[1]))))

\* one turn of the loop: the stat of LIST's next name resolves
GetListStat(r) ==
    /\ req[r].pc = "getListStat"
    /\ LET NAME == Head(req[r].list)
           FULL_PATH == PathResolve(PathJoin(req[r].target, NAME))
           rest == Tail(req[r].list)
       IN IF ~Exists(FULL_PATH)
          THEN RequestStep(r, Rejected(req[r]))
          ELSE LET RESULT == Append(req[r].result, TO_DIRECTORY_ENTRY(StatOf(FULL_PATH), NAME))
               IN IF rest = <<>>
                  THEN RequestStep(r, SEND_JSON([req[r] EXCEPT !.list = rest, !.result = RESULT],
                                                RESULT))
                  ELSE RequestStep(r, Calling([req[r] EXCEPT !.list = rest, !.result = RESULT],
                                              PathResolve(PathJoin(req[r].target, rest[1]))))

\* a file read that empties the file it has read
GetReadFileTruncating(r) ==
    /\ req[r].pc = "getReadFile"
    /\ IF ~IsFile(req[r].target)
       THEN RequestStep(r, Rejected(req[r]))
       ELSE LET DATA == fs[req[r].target].data
            IN IF Len(DATA) > 0
               THEN RequestAndFsStep(r, [req[r] EXCEPT !.pc = "done", !.status = 200,
                                                       !.sent = @ + 1,
                                                       !.respBody = << "raw", DATA >>],
                                     [fs EXCEPT ![req[r].target] = File(<<>>)])
               ELSE RequestStep(r, SendStatus(req[r], 204))

GetReadFile(r) ==
    /\ req[r].pc = "getReadFile"
    /\ IF ~IsFile(req[r].target)
       THEN RequestStep(r, Rejected(req[r]))
       ELSE LET DATA == fs[req[r].target].data
            IN IF Len(DATA) > 0
               THEN RequestStep(r, [req[r] EXCEPT !.pc = "done", !.status = 200, !.sent = @ + 1,
                                                  !.respBody = << "raw", DATA >>])
               ELSE RequestStep(r, SendStatus(req[r], 204))

(***************************************************************************)
(* app.post('/*'): create directory                                        *)
(***************************************************************************)
PostStart(r) == HandlerStart(r, "POST", TRUE, "postExists")

\* a create-directory handler that answers 409 for an existing directory only
PostAfterExistsDirectoriesOnly(r) ==
    /\ req[r].pc = "postExists"
    /\ IF IsDirectory(req[r].target)
       THEN RequestStep(r, SendStatus(req[r], 409))
       ELSE RequestStep(r, Calling([req[r] EXCEPT !.pc = "postMkdirs"], req[r].target))

PostAfterExists(r) ==
    /\ req[r].pc = "postExists"
    /\ IF Exists(req[r].target)
       THEN RequestStep(r, SendStatus(req[r], 409))
       ELSE RequestStep(r, Calling([req[r] EXCEPT !.pc = "postMkdirs"], req[r].target))

\* a creation that looks again as it creates, and answers 409 when the
\* directory has appeared since the check
PostMkdirsExclusive(r) ==
    /\ req[r].pc = "postMkdirs"
    /\ IF Exists(req[r].target)
       THEN RequestStep(r, SendStatus(req[r], 409))
       ELSE IF MkdirsFails(req[r].target)
       THEN RequestStep(r, Rejected(req[r]))
       ELSE RequestAndFsStep(r, Calling([req[r] EXCEPT !.pc = "postStat"], req[r].target),
                             Mkdirs(req[r].target))

PostMkdirs(r) ==
    /\ req[r].pc = "postMkdirs"
    /\ IF MkdirsFails(req[r].target)
       THEN RequestStep(r, Rejected(req[r]))
       ELSE RequestAndFsStep(r, Calling([req[r] EXCEPT !.pc = "postStat"], req[r].target),
                             Mkdirs(req[r].target))

\* GET_DIRECTORY_ENTRY(NEW_FOLDER)
PostStat(r) ==
    /\ req[r].pc = "postStat"
    /\ IF ~Exists(req[r].target)
       THEN RequestStep(r, Rejected(req[r]))
       ELSE RequestStep(r, SEND_JSON(req[r], TO_DIRECTORY_ENTRY(StatOf(req[r].target),
                                                                PathBasename(req[r].target))))

(***************************************************************************)
(* app.put('/*'): write (new) file                                         *)
(***************************************************************************)
PutStart(r) == HandlerStart(r, "PUT", TRUE, "putExists")

PutAfterExists(r) ==
    /\ req[r].pc = "putExists"
    /\ IF Exists(req[r].target)
       THEN RequestStep(r, Calling([req[r] EXCEPT !.pc = "putStat"], req[r].target))
       ELSE RequestStep(r, Calling([req[r] EXCEPT !.pc = "putDirExists"],
                                   PathDirname(req[r].target)))

\* a write handler that does not look whether the existing entry is a directory
PutStatWithoutDirectoryCheck(r) ==
    /\ req[r].pc = "putStat"
    /\ IF ~Exists(req[r].target)
       THEN RequestStep(r, Rejected(req[r]))
       ELSE RequestStep(r, Calling([req[r] EXCEPT !.pc = "putDirExists"],
                                   PathDirname(req[r].target)))

PutStat(r) ==
    /\ req[r].pc = "putStat"
    /\ IF ~Exists(req[r].target)
       THEN RequestStep(r, Rejected(req[r]))
       ELSE IF IsDirectory(req[r].target)
       THEN RequestStep(r, SendStatus(req[r], 409))
       ELSE RequestStep(r, Calling([req[r] EXCEPT !.pc = "putDirExists"],
                                   PathDirname(req[r].target)))

PutAfterDirExists(r) ==
    /\ req[r].pc = "putDirExists"
    /\ IF ~Exists(PathDirname(req[r].target))
       THEN RequestStep(r, Calling([req[r] EXCEPT !.pc = "putMkdirs"],
                                   PathDirname(req[r].target)))
       ELSE RequestStep(r, [req[r] EXCEPT !.pc = "putReadAll"])

PutMkdirs(r) ==
    /\ req[r].pc = "putMkdirs"
    /\ IF MkdirsFails(PathDirname(req[r].target))
       THEN RequestStep(r, Rejected(req[r]))
       ELSE RequestAndFsStep(r, [req[r] EXCEPT !.pc = "putReadAll"],
                             Mkdirs(PathDirname(req[r].target)))

\* readAll(req) resolves with the body; FSExtra.writeFile is called
PutReadAll(r) ==
    /\ req[r].pc = "putReadAll"
    /\ RequestStep(r, Calling([req[r] EXCEPT !.pc = "putWrite"], req[r].target))

\* a write that appends the body to the content a file has
PutWriteAppending(r) ==
    /\ req[r].pc = "putWrite"
    /\ IF WriteFileFails(req[r].target)
       THEN RequestStep(r, Rejected(req[r]))
       ELSE RequestAndFsStep(r, Calling([req[r] EXCEPT !.pc = "putFinalStat"], req[r].target),
                             AddEntry(req[r].target,
                                      File((IF IsFile(req[r].target)
                                            THEN fs[req[r].target].data ELSE <<>>)
                                           \o req[r].body)))

PutWrite(r) ==
    /\ req[r].pc = "putWrite"
    /\ IF WriteFileFails(req[r].target)
       THEN RequestStep(r, Rejected(req[r]))
       ELSE RequestAndFsStep(r, Calling([req[r] EXCEPT !.pc = "putFinalStat"], req[r].target),
                             AddEntry(req[r].target, File(req[r].body)))

\* GET_DIRECTORY_ENTRY(FILE)
PutFinalStat(r) ==
    /\ req[r].pc = "putFinalStat"
    /\ IF ~Exists(req[r].target)
       THEN RequestStep(r, Rejected(req[r]))
       ELSE RequestStep(r, SEND_JSON(req[r], TO_DIRECTORY_ENTRY(StatOf(req[r].target),
                                                                PathBasename(req[r].target))))

(***************************************************************************)
(* app.delete('/*'): delete file or folder                                 *)
(***************************************************************************)
DeleteStart(r) == HandlerStart(r, "DELETE", TRUE, "deleteExists")

DeleteAfterExists(r) ==
    /\ req[r].pc = "deleteExists"
    /\ IF ~Exists(req[r].target)
       THEN RequestStep(r, SendStatus(req[r], 404))
       ELSE RequestStep(r, Calling([req[r] EXCEPT !.pc = "deleteStat"], req[r].target))

\* STAT is taken; FSExtra.remove or FSExtra.unlink is called
DeleteStat(r) ==
    /\ req[r].pc = "deleteStat"
    /\ IF ~Exists(req[r].target)
       THEN RequestStep(r, Rejected(req[r]))
       ELSE RequestStep(r, Calling([req[r] EXCEPT !.pc = IF IsDirectory(req[r].target)
                                                         THEN "deleteRemove" ELSE "deleteUnlink",
                                                  !.stat = StatOf(req[r].target)],
                                   req[r].target))

\* FSExtra.remove: the entry and all below it; a missing entry is no error
DeleteRemove(r) ==
    /\ req[r].pc = "deleteRemove"
    /\ RequestAndFsStep(r, SEND_JSON(req[r], TO_DIRECTORY_ENTRY(req[r].stat,
                                                                PathBasename(req[r].target))),
                        RemoveTree(req[r].target))

\* FSExtra.unlink fails on a missing entry and on a directory
DeleteUnlink(r) ==
    /\ req[r].pc = "deleteUnlink"
    /\ IF ~IsFile(req[r].target)
       THEN RequestStep(r, Rejected(req[r]))
       ELSE RequestAndFsStep(r, SEND_JSON(req[r], TO_DIRECTORY_ENTRY(req[r].stat,
                                                                     PathBasename(req[r].target))),
                             RemoveTree(req[r].target))

(***************************************************************************)
(* The routes as setupEndpoints registers them, each request handed        *)
(* straight to its route.                                                  *)
(***************************************************************************)
\* the segments of request paths: a name, '.' and '..'
Segments == { << "a" >>, << DOT >>, << DOT, DOT >> }

RECURSIVE PathsOf(_)
\* the strings of at most n segments, a '/' before each
PathsOf(n) ==
    IF n = 0 THEN { <<>> }
    ELSE LET shorter == PathsOf(n - 1)
         IN shorter \cup { s \o PathSep \o seg : s \in shorter, seg \in Segments }

\* req.path: the path of the request URL, which begins with '/'
RequestPaths == { IF s = <<>> THEN PathSep ELSE s : s \in PathsOf(MaxSegments) }

Bodies == { <<>>, << 7 >> }

RoutedMethods == { "GET", "POST", "PUT", "DELETE" }

\* the entries besides the root, once a POST or PUT of request path p is
\* through: nothing is added below a file
EntriesAfter(p) ==
    LET target == SANATIZE_PATH(PathJoin(rootDir, normalizePath(p)))
        added == IF \E q \in PathAndAncestors(target) \ { target } : IsFile(q)
                 THEN {}
                 ELSE PathAndAncestors(target)
    IN (DOMAIN fs \cup added) \ { rootDir }

ArriveAtRoute(r) ==
    /\ req[r].pc = "idle"
    /\ \E m \in RoutedMethods, p \in RequestPaths, i \in BOOLEAN, b \in Bodies :
          /\ i => m = "GET"
          /\ b # <<>> => m = "PUT"
          /\ m \in { "POST", "PUT" } => Cardinality(EntriesAfter(p)) <= MaxFsEntries
          /\ req' = [req EXCEPT ![r] = [IdleRequest EXCEPT !.pc = "route", !.method = m,
                                                           !.path = p, !.info = i, !.body = b,
                                                           !.hasVars = TRUE, !.before = fs]]
    /\ UNCHANGED << options, rootDir, fsExistsThrows, fs, call, host >>

EndpointOptions ==
    [ requestValidator |-> [configured |-> FALSE, allowed |-> {}],
      accountValidator |-> [configured |-> FALSE, user |-> Undefined, password |-> Undefined],
      canWrite |-> JsBoolean(TRUE),
      realm |-> Undefined ]

InitEndpoints ==
    /\ options = EndpointOptions
    /\ rootDir \in RootDirs
    /\ fsExistsThrows = FALSE
    /\ fs = [p \in { rootDir } |-> Dir]
    /\ req = [r \in AllSlots |-> IdleRequest]
    /\ call = IdleCall
    /\ host = IdleHost

NextEndpoints ==
    \/ \E r \in Slots : ArriveAtRoute(r)
    \/ \E r \in Slots : GetStart(r)
    \/ \E r \in Slots : GetAfterExists(r)
    \/ \E r \in Slots : GetInfoStat(r)
    \/ \E r \in Slots : GetStat(r)
    \/ \E r \in Slots : GetReaddir(r)
    \/ \E r \in Slots : GetListStat(r)
    \/ \E r \in Slots : GetReadFile(r)
    \/ \E r \in Slots : PostStart(r)
    \/ \E r \in Slots : PostAfterExists(r)
    \/ \E r \in Slots : PostMkdirs(r)
    \/ \E r \in Slots : PostStat(r)
    \/ \E r \in Slots : PutStart(r)
    \/ \E r \in Slots : PutAfterExists(r)
    \/ \E r \in Slots : PutStat(r)
    \/ \E r \in Slots : PutAfterDirExists(r)
    \/ \E r \in Slots : PutMkdirs(r)
    \/ \E r \in Slots : PutReadAll(r)
    \/ \E r \in Slots : PutWrite(r)
    \/ \E r \in Slots : PutFinalStat(r)
    \/ \E r \in Slots : DeleteStart(r)
    \/ \E r \in Slots : DeleteAfterExists(r)
    \/ \E r \in Slots : DeleteStat(r)
    \/ \E r \in Slots : DeleteRemove(r)
    \/ \E r \in Slots : DeleteUnlink(r)
    \/ \E r \in Slots : Finish(r)

SpecEndpoints == InitEndpoints /\ [][NextEndpoints]_vars


(***************************************************************************)
(* Listings: GET requests to a root that holds several entries, whose      *)
(* names differ in case and whose kinds differ.                            *)
(***************************************************************************)
\* what the root may hold: the directory A, the file a and the file b
ListingEntries ==
    { << << "A" >>, Dir >>, << << "a" >>, File(<<>>) >>, << << "b" >>, File(<< 7 >>) >> }

\* the file system with the root and the entries of S in it
ListingTree(S) ==
    [p \in { rootDir } \cup { PathJoin(rootDir, e[1]) : e \in S } |->
        IF p = rootDir THEN Dir
        ELSE (CHOOSE e \in S : PathJoin(rootDir, e[1]) = p)[2]]

ListingPaths == { PathSep } \cup { PathSep \o e[1] : e \in ListingEntries }

ArriveAtListing(r) ==
    /\ req[r].pc = "idle"
    /\ \E p \in ListingPaths, i \in BOOLEAN :
          req' = [req EXCEPT ![r] = [IdleRequest EXCEPT !.pc = "route", !.method = "GET",
                                                           !.path = p, !.info = i,
                                                           !.hasVars = TRUE, !.before = fs]]
    /\ UNCHANGED << options, rootDir, fsExistsThrows, fs, call, host >>

InitListing ==
    /\ options = EndpointOptions
    /\ rootDir = PlainRoot
    /\ fsExistsThrows = FALSE
    /\ fs \in { ListingTree(S) : S \in SUBSET ListingEntries }
    /\ req = [r \in AllSlots |-> IdleRequest]
    /\ call = IdleCall
    /\ host = IdleHost

NextListing ==
    \/ \E r \in Slots : ArriveAtListing(r)
    \/ \E r \in Slots : GetStart(r)
    \/ \E r \in Slots : GetAfterExists(r)
    \/ \E r \in Slots : GetInfoStat(r)
    \/ \E r \in Slots : GetStat(r)
    \/ \E r \in Slots : GetReaddir(r)
    \/ \E r \in Slots : GetListStat(r)
    \/ \E r \in Slots : GetReadFile(r)
    \/ \E r \in Slots : Finish(r)

SpecListing == InitListing /\ [][NextListing]_vars

(***************************************************************************)
(* Two requests at a time: creations, writes and deletions that meet at a  *)
(* path and at its parent.  Every await of a handler is a point at which   *)
(* the other request's handler may run.                                    *)
(***************************************************************************)
RacePaths == { PathSep \o << "a" >>, PathSep \o << "a" >> \o PathSep \o << "a" >> }

RaceMethods == { "POST", "PUT", "DELETE" }

ArriveAtRace(r) ==
    /\ req[r].pc = "idle"
    /\ \E m \in RaceMethods, p \in RacePaths :
          req' = [req EXCEPT ![r] = [IdleRequest EXCEPT !.pc = "route", !.method = m,
                                                           !.path = p,
                                                           !.body = IF m = "PUT" THEN << 7 >> ELSE <<>>,
                                                           !.hasVars = TRUE, !.before = fs]]
    /\ UNCHANGED << options, rootDir, fsExistsThrows, fs, call, host >>

InitRace ==
    /\ options = EndpointOptions
    /\ rootDir = PlainRoot
    /\ fsExistsThrows = FALSE
    /\ fs = [p \in { rootDir } |-> Dir]
    /\ req = [r \in AllSlots |-> IdleRequest]
    /\ call = IdleCall
    /\ host = IdleHost

NextRace ==
    \/ \E r \in AllSlots : ArriveAtRace(r)
    \/ \E r \in AllSlots : PostStart(r)
    \/ \E r \in AllSlots : PostAfterExists(r)
    \/ \E r \in AllSlots : PostMkdirs(r)
    \/ \E r \in AllSlots : PostStat(r)
    \/ \E r \in AllSlots : PutStart(r)
    \/ \E r \in AllSlots : PutAfterExists(r)
    \/ \E r \in AllSlots : PutStat(r)
    \/ \E r \in AllSlots : PutAfterDirExists(r)
    \/ \E r \in AllSlots : PutMkdirs(r)
    \/ \E r \in AllSlots : PutReadAll(r)
    \/ \E r \in AllSlots : PutWrite(r)
    \/ \E r \in AllSlots : PutFinalStat(r)
    \/ \E r \in AllSlots : DeleteStart(r)
    \/ \E r \in AllSlots : DeleteAfterExists(r)
    \/ \E r \in AllSlots : DeleteStat(r)
    \/ \E r \in AllSlots : DeleteRemove(r)
    \/ \E r \in AllSlots : DeleteUnlink(r)
    \/ \E r \in AllSlots : Finish(r)

SpecRace == InitRace /\ [][NextRace]_vars

(***************************************************************************)
(* Two requests at a time in the gate chain, each with credentials of its  *)
(* own.  The awaits of the validators are the points at which the other    *)
(* request's middleware may run.                                           *)
(***************************************************************************)
AccountOptions ==
    { o \in OptionSets : /\ o.requestValidator = [configured |-> TRUE, allowed |-> {}]
                         /\ o.canWrite = JsBoolean(TRUE)
                         /\ o.realm = Undefined }

ArriveWithCredentials(r) ==
    /\ req[r].pc = "idle"
    /\ \E h \in AuthorizationHeaders :
          req' = [req EXCEPT ![r] = [IdleRequest EXCEPT !.pc = "ipCheck", !.method = "GET",
                                                        !.remoteAddress = Loopback,
                                                        !.authorization = h]]
    /\ UNCHANGED << options, rootDir, fsExistsThrows, fs, call, host >>

InitAccounts ==
    /\ options \in AccountOptions
    /\ rootDir = PlainRoot
    /\ fsExistsThrows \in BOOLEAN
    /\ fs = [p \in { rootDir } |-> Dir]
    /\ req = [r \in AllSlots |-> IdleRequest]
    /\ call = IdleCall
    /\ host = IdleHost

NextAccounts ==
    \/ \E r \in AllSlots : ArriveWithCredentials(r)
    \/ \E r \in AllSlots : IpCheck(r)
    \/ \E r \in AllSlots : IpCheckResume(r)
    \/ \E r \in AllSlots : Headers(r)
    \/ \E r \in AllSlots : BasicAuth(r)
    \/ \E r \in AllSlots : BasicAuthResume(r)
    \/ \E r \in AllSlots : ReadOnly(r)
    \/ \E r \in AllSlots : RootCheck(r)
    \/ \E r \in AllSlots : RootCheckResume(r)
    \/ \E r \in AllSlots : Finish(r)

SpecAccounts == InitAccounts /\ [][NextAccounts]_vars

(***************************************************************************)
(* Requests that are refused: by a gate of the chain, or by the path       *)
(* check at the start of a route handler.  The host allows two networks,   *)
(* knows one account and is read-only.                                      *)
(***************************************************************************)
\* a request is handed to its route with a path that climbs out of the root
\* or, for the writing verbs, names the root itself
ArriveRefusedPath(r) ==
    /\ req[r].pc = "idle"
    /\ \E m \in RoutedMethods,
          p \in { PathSep, PathSep \o << DOT, DOT >>,
                  PathSep \o << DOT, DOT >> \o PathSep \o << "a" >> } :
          /\ m = "GET" => p # PathSep
          /\ req' = [req EXCEPT ![r] = [IdleRequest EXCEPT !.pc = "route", !.method = m,
                                                           !.path = p, !.hasVars = TRUE,
                                                           !.before = fs]]
    /\ UNCHANGED << options, rootDir, fsExistsThrows, fs, call, host >>

NextRefusals ==
    \/ \E r \in Slots : Arrive(r)
    \/ \E r \in Slots : IpCheck(r)
    \/ \E r \in Slots : IpCheckResume(r)
    \/ \E r \in Slots : Headers(r)
    \/ \E r \in Slots : BasicAuth(r)
    \/ \E r \in Slots : BasicAuthResume(r)
    \/ \E r \in Slots : ReadOnly(r)
    \/ \E r \in Slots : RootCheck(r)
    \/ \E r \in Slots : RootCheckResume(r)
    \/ \E r \in Slots : ArriveRefusedPath(r)
    \/ \E r \in Slots : GetStart(r)
    \/ \E r \in Slots : PostStart(r)
    \/ \E r \in Slots : PutStart(r)
    \/ \E r \in Slots : DeleteStart(r)
    \/ \E r \in Slots : Finish(r)
    \/ EnvRemoveRoot
    \/ EnvCreateRoot

InitRefusals ==
    /\ options = [ requestValidator |-> [configured |-> TRUE, allowed |-> { Lan23, Host32 }],
                   accountValidator |-> [configured |-> TRUE, user |-> << "a" >>,
                                         password |-> << "a" >>],
                   canWrite |-> JsBoolean(FALSE), realm |-> Undefined ]
    /\ rootDir = PlainRoot
    /\ fsExistsThrows = FALSE
    /\ fs \in { [p \in { rootDir } |-> Dir],
                [p \in { rootDir, PathJoin(rootDir, << "a" >>) } |->
                    IF p = rootDir THEN Dir ELSE File(<< 7 >>)] }
    /\ req = [r \in AllSlots |-> IdleRequest]
    /\ call = IdleCall
    /\ host = IdleHost

SpecRefusals == InitRefusals /\ [][NextRefusals]_vars

(***************************************************************************)
(* ShareFolderClient.  Two builds of the client are in the repository: the *)
(* TypeScript source (src/client.ts) and the compiled library               *)
(* (lib/client.js).  They differ in request()'s CALLBACK and in download(); *)
(* a call is made on a client of either build.                              *)
(***************************************************************************)
ClientBuilds == { "src", "lib" }

\* new Buffer(s, 'ascii'): the byte of each character the model uses
ByteOfChar(c) ==
    CASE c = " " -> 32
      [] c = ":" -> 58
      [] c = "A" -> 65
      [] c = "B" -> 66
      [] c = "a" -> 97
      [] c = "b" -> 98
      [] c = "\"" -> 34
      [] OTHER -> 35

RECURSIVE Base64Encode(_)
\* Buffer.toString('base64'): three bytes give four characters, '=' pads
Base64Encode(bytes) ==
    IF bytes = <<>> THEN <<>>
    ELSE LET n == Len(bytes)
             b1 == bytes[1]
             b2 == IF n > 1 THEN bytes[2] ELSE 0
             b3 == IF n > 2 THEN bytes[3] ELSE 0
         IN << B64Chars[b1 \div 4 + 1],
               B64Chars[(b1 % 4) * 16 + b2 \div 16 + 1],
               IF n > 1 THEN B64Chars[(b2 % 16) * 4 + b3 \div 64 + 1] ELSE "=",
               IF n > 2 THEN B64Chars[(b3 % 64) + 1] ELSE "=" >>
            \o Base64Encode(SubSeq(bytes, 4, n))

\* helpers.isEmptyString
isEmptyString(val) == Trim(toStringSafe(val)) = <<>>

\* the constructor's account: set when opts.user or opts.password is not empty
ClientAccount(user, password) ==
    IF ~isEmptyString(user) \/ ~isEmptyString(password)
    THEN << toStringSafe(user), toStringSafe(password) >>
    ELSE NoAccount

\* request(): the method upper-cased and trimmed, the path normalized, and
\* the Authorization header of a client with an account
request(platform, account, method, path, body) ==
    [ method |-> method,
      path |-> IF platform = "win32" THEN normalizePathWin32(path) ELSE normalizePath(path),
      authorization |->
          IF account # NoAccount
          THEN LET text == account[1] \o << ":" >> \o account[2]
               IN << "B", "a", "s", "i", "c", " " >>
                     \o Base64Encode([i \in 1..Len(text) |-> ByteOfChar(text[i])])
          ELSE Undefined,
      body |-> body ]

(***************************************************************************)
(* JSON, as SEND_JSON writes it and the client reads it.  A text is kept   *)
(* as its parse tree: an object with its members in order, a string with   *)
(* its characters escaped, a number, or an array of objects.  A response   *)
(* body that is no JSON text makes JSON.parse throw.                        *)
(***************************************************************************)
RECURSIVE JsonEscape(_)
\* the quotation mark and the backslash are written behind a backslash
JsonEscape(s) ==
    IF s = <<>> THEN <<>>
    ELSE (IF Head(s) \in { "\"", "\\" } THEN << "\\", Head(s) >> ELSE << Head(s) >>)
            \o JsonEscape(Tail(s))

RECURSIVE JsonUnescape(_)
JsonUnescape(s) ==
    IF s = <<>> THEN <<>>
    ELSE IF Head(s) = "\\" /\ Len(s) > 1 THEN << s[2] >> \o JsonUnescape(SubSeq(s, 3, Len(s)))
    ELSE << Head(s) >> \o JsonUnescape(Tail(s))

\* JSON.stringify of a DirectoryEntry: a member whose value is undefined is
\* left out
JSON_stringify(e) ==
    [ json |-> "object",
      members |->
          << [key |-> "ctime", value |-> [json |-> "string", text |-> JsonEscape(e.ctime)]],
             [key |-> "mtime", value |-> [json |-> "string", text |-> JsonEscape(e.mtime)]] >>
          \o (IF e.name = Undefined THEN <<>>
              ELSE << [key |-> "name",
                       value |-> [json |-> "string", text |-> JsonEscape(e.name)]] >>)
          \o << [key |-> "size", value |-> [json |-> "number", number |-> e.size]],
                [key |-> "type", value |-> [json |-> "number", number |-> e.type]] >> ]

\* JSON.stringify of the array of a listing
JSON_stringifyArray(es) ==
    [ json |-> "array", items |-> [i \in 1..Len(es) |-> JSON_stringify(es[i])] ]

\* the value of member key of a parsed object; undefined without the member
JsonMember(text, key, missing) ==
    IF \E i \in 1..Len(text.members) : text.members[i].key = key
    THEN LET i == CHOOSE i \in 1..Len(text.members) :
                      /\ text.members[i].key = key
                      /\ \A j \in (i + 1)..Len(text.members) : text.members[j].key # key
             v == text.members[i].value
         IN IF v.json = "string" THEN JsonUnescape(v.text) ELSE v.number
    ELSE missing

\* JSON.parse of the text of an object, read as a DirectoryEntry (a number
\* that is missing, which is undefined and no entry type, is kept as 0)
JSON_parse(text) ==
    [ ctime |-> JsonMember(text, "ctime", Undefined),
      mtime |-> JsonMember(text, "mtime", Undefined),
      name |-> JsonMember(text, "name", Undefined),
      size |-> JsonMember(text, "size", 0),
      type |-> JsonMember(text, "type", 0) ]

(***************************************************************************)
(* The way a call settles: the promise of the method is resolved with a    *)
(* value (entries of a listing, one entry, the bytes of a Buffer, or        *)
(* undefined) or rejected with an Error (its message, and the status code   *)
(* the message carries).                                                    *)
(***************************************************************************)
ResolvedWith(t, v) == [ settled |-> "resolved", error |-> "", code |-> 0, value |-> [t |-> t, v |-> v] ]

RejectedWith(message, code) ==
    [ settled |-> "rejected", error |-> message, code |-> code,
      value |-> [t |-> "none", v |-> <<>>] ]

\* request()'s CALLBACK: the error it completes with, or "" when it completes
\* with the result.  The source has no branch for 403.
CALLBACK(build, statusCode) ==
    CASE statusCode = 400 -> "Invalid path!"
      [] statusCode = 401 -> "Unauthorized!"
      [] statusCode = 403 /\ build = "lib" -> "Forbidden!"
      [] statusCode = 404 -> "Not found!"
      [] OTHER -> ""

\* x < y of two strings: by the code units
StringLess(s, t) ==
    \/ Len(s) < Len(t) /\ SubSeq(t, 1, Len(s)) = s
    \/ \E i \in 1..Len(s) :
          /\ i <= Len(t)
          /\ SubSeq(s, 1, i - 1) = SubSeq(t, 1, i - 1)
          /\ ByteOfChar(s[i]) < ByteOfChar(t[i])

\* Enumerable.from(ENTRIES).orderBy(..).thenBy(..).toArray(): the orders of
\* the entries that ascend by the two keys (entries equal in both keys may
\* come either way where the sort of the runtime is not stable)
OrderedBy(ENTRIES) ==
    LET n == Len(ENTRIES)
        first(e) == IF DirectoryEntryType_Directory = e.type THEN 0 ELSE 1
        then(e) == normalizeString(e.name)
        before(d, e) == \/ first(d) < first(e)
                        \/ first(d) = first(e) /\ ~StringLess(then(e), then(d))
    IN { [i \in 1..n |-> ENTRIES[f[i]]] :
            f \in { g \in [1..n -> 1..n] :
                       /\ \A i, j \in 1..n : i # j => g[i] # g[j]
                       /\ \A i, j \in 1..n : i < j => before(ENTRIES[g[i]], ENTRIES[g[j]]) } }

\* JSON.parse of a response body that was read whole, or the SyntaxError
IsJson(body) == body.kind = "json"

\* list(), from the resolved result on: the values it may return
list(resp) ==
    IF normalizeString(resp.type) # << "d" >> THEN { RejectedWith("No directory!", 0) }
    ELSE IF resp.statusCode \notin { 200, 204 }
    THEN { RejectedWith("Unexpected response", resp.statusCode) }
    ELSE IF 200 = resp.statusCode
    THEN IF ~IsJson(resp.body) THEN { RejectedWith("SyntaxError", 0) }
         ELSE LET text == resp.body.text
                  \* asArray(JSON.parse(..))
                  ENTRIES == IF text.json = "array"
                             THEN [i \in 1..Len(text.items) |-> JSON_parse(text.items[i])]
                             ELSE << JSON_parse(text) >>
              IN { ResolvedWith("entries", es) : es \in OrderedBy(ENTRIES) }
    ELSE { ResolvedWith("entries", <<>>) }

\* download(path), called with the path alone
download(build, resp) ==
    IF resp.statusCode \notin { 200, 204 }
    THEN RejectedWith("Unexpected response", resp.statusCode)
    ELSE IF normalizeString(resp.type) # << "f" >> THEN RejectedWith("No file!", 0)
    ELSE IF 204 = resp.statusCode THEN ResolvedWith("buffer", <<>>)
    \* arguments.length is 1: the source asks for < 1, the library for < 2
    ELSE IF build = "lib" THEN ResolvedWith("buffer", resp.body.bytes)
    ELSE ResolvedWith("undefined", <<>>)

\* what upload() and remove() return for a 200
ParsedEntry(resp) ==
    IF ~IsJson(resp.body) THEN RejectedWith("SyntaxError", 0)
    ELSE IF resp.body.text.json = "array"
    THEN ResolvedWith("entries", [i \in 1..Len(resp.body.text.items) |->
                                     JSON_parse(resp.body.text.items[i])])
    ELSE ResolvedWith("entry", JSON_parse(resp.body.text))

upload(resp) ==
    IF 200 # resp.statusCode
    THEN IF 409 = resp.statusCode THEN RejectedWith("Path is a directory!", 0)
         ELSE RejectedWith("Unexpected response", resp.statusCode)
    ELSE ParsedEntry(resp)

remove(resp) ==
    IF 200 # resp.statusCode THEN RejectedWith("Unexpected response", resp.statusCode)
    ELSE ParsedEntry(resp)

(***************************************************************************)
(* Calls of the client methods and the responses they get                  *)
(***************************************************************************)
\* opts.user and opts.password of the clients: none, a plain pair, a user
\* name in upper case, a password with a colon, a user name with a colon
ClientCredentials ==
    { << Undefined, Undefined >>,
      << << "a" >>, << "a" >> >>,
      << << "A" >>, << "a" >> >>,
      << << "a" >>, << "b", ":", "a" >> >>,
      << << "a", ":" >>, << "b" >> >> }

\* the path arguments: empty, '.', '/', with and without slashes, spaces and
\* backslashes
ClientPaths ==
    { <<>>, << "." >>, << " ", "." >>, << "/" >>, << "a" >>, << "/", "a", "/" >>,
      << " ", "/", "a" >>, << "a", "/", " " >>, << "/", "/", "a", "/", "b" >>,
      << "\\", "a", "\\", "b", "\\" >> }

\* Date.prototype.toISOString of the first milliseconds of the epoch
toISOString(ms) ==
    IF ms = 0 THEN << "1970-01-01T00:00:00.000Z" >> ELSE << "1970-01-01T00:00:00.001Z" >>

\* the entry the host makes of fs.Stats and a name, with its timestamps
ServerEntry(stat, n) ==
    [ ctime |-> toISOString(stat.ctime), mtime |-> toISOString(stat.mtime),
      name |-> TO_DIRECTORY_ENTRY(stat, n).name,
      size |-> TO_DIRECTORY_ENTRY(stat, n).size,
      type |-> TO_DIRECTORY_ENTRY(stat, n).type ]

\* the entries a host answers with: names that differ in case, in leading
\* space and in kind, and a name with a quotation mark and a backslash
ServerEntries ==
    { ServerEntry([type |-> "d", size |-> 0, ctime |-> 0, mtime |-> 1], << "b" >>),
      ServerEntry([type |-> "f", size |-> 1, ctime |-> 1, mtime |-> 1], << "A" >>),
      ServerEntry([type |-> "f", size |-> 0, ctime |-> 0, mtime |-> 0], << "a" >>),
      ServerEntry([type |-> "f", size |-> 2, ctime |-> 0, mtime |-> 1], << " ", "b" >>),
      ServerEntry([type |-> "d", size |-> 0, ctime |-> 1, mtime |-> 1], << "a", "\"", "\\" >>) }

Response(statusCode, type, kind, bytes, text) ==
    [ statusCode |-> statusCode, type |-> type,
      body |-> [kind |-> kind, bytes |-> bytes, text |-> text] ]

\* the responses of a host: a listing in whatever order (200, or 204 for an
\* empty directory), a file's content (200, or 204 for an empty file), one
\* entry (the answers to POST, PUT, DELETE and info), or a bare status
Responses ==
    { Response(200, << "d" >>, "json", <<>>, JSON_stringifyArray(es)) :
         es \in UNION { Orders(S) : S \in { T \in SUBSET ServerEntries :
                                               Cardinality(T) \in 1..MaxListed } } }
      \cup { Response(204, << "d" >>, "none", <<>>, <<>>),
             Response(204, << "f" >>, "none", <<>>, <<>>),
             Response(200, << "f" >>, "raw", << 7, 7 >>, <<>>) }
      \cup { Response(200, Undefined, "json", <<>>, JSON_stringify(e)) : e \in ServerEntries }
      \cup { Response(c, Undefined, "none", <<>>, <<>>) :
                c \in { 400, 401, 403, 404, 409, 500, 503 } }

\* a method is called: it normalizes the path and calls request(), which
\* normalizes it again, builds the options and hands them to HTTPs.request.
\* With ssl the request is written and ended.  Without ssl the protocol of
\* the options is 'http:', which HTTPs.request refuses by throwing; the
\* catch completes the call with that error and nothing is sent.
ClientCall ==
    /\ call.pc = "idle"
    /\ \E build \in ClientBuilds, platform \in { "posix", "win32" }, ssl \in BOOLEAN,
          c \in ClientCredentials,
          m \in { "list", "download", "upload", "remove" }, p \in ClientPaths :
          LET account == ClientAccount(c[1], c[2])
              normalized == IF platform = "win32" THEN normalizePathWin32(p)
                            ELSE normalizePath(p)
              data == IF m = "upload" THEN << 7 >> ELSE <<>>
              verb == CASE m = "upload" -> "PUT" [] m = "remove" -> "DELETE" [] OTHER -> "GET"
              started == [IdleCall EXCEPT !.build = build, !.platform = platform,
                                          !.ssl = ssl, !.account = account,
                                          !.method = m, !.path = p,
                                          !.normalized = normalized, !.data = data]
          IN IF ssl
             THEN call' = [started EXCEPT !.pc = "waiting",
                                          !.sent = << request(platform, account, verb, normalized, data) >>]
             ELSE call' = [started EXCEPT !.pc = "settled",
                                          !.outcome = RejectedWith("Protocol \"http:\" not supported", 0)]
    /\ UNCHANGED << options, rootDir, fsExistsThrows, fs, req, host >>

\* the response arrives: CALLBACK completes the request, and the method goes
\* on with the result
ClientResponse ==
    /\ call.pc = "waiting"
    /\ \E resp \in Responses :
          \E outcome \in
                IF CALLBACK(call.build, resp.statusCode) # ""
                THEN { RejectedWith(CALLBACK(call.build, resp.statusCode), 0) }
                ELSE CASE call.method = "list" -> list(resp)
                       [] call.method = "download" -> { download(call.build, resp) }
                       [] call.method = "upload" -> { upload(resp) }
                       [] OTHER -> { remove(resp) } :
             call' = [call EXCEPT !.pc = "settled", !.response = resp, !.outcome = outcome]
    /\ UNCHANGED << options, rootDir, fsExistsThrows, fs, req, host >>

\* the transport fails: the request emits 'error', for which request()
\* registers no listener; the promise of the call is never settled
ClientTransportError ==
    /\ call.pc = "waiting"
    /\ call' = [call EXCEPT !.pc = "failed"]
    /\ UNCHANGED << options, rootDir, fsExistsThrows, fs, req, host >>

\* the caller is done with the call
ClientReturn ==
    /\ call.pc \in { "settled", "failed" }
    /\ call' = IdleCall
    /\ UNCHANGED << options, rootDir, fsExistsThrows, fs, req, host >>

InitClient ==
    /\ options = EndpointOptions
    /\ rootDir = PlainRoot
    /\ fsExistsThrows = FALSE
    /\ fs = [p \in { rootDir } |-> Dir]
    /\ req = [r \in AllSlots |-> IdleRequest]
    /\ call = IdleCall
    /\ host = IdleHost

NextClient ==
    \/ ClientCall
    \/ ClientResponse
    \/ ClientTransportError
    \/ ClientReturn

SpecClient == InitClient /\ [][NextClient]_vars

(***************************************************************************)
(* Requests whose last segment the filename sanitizer changes: ':' is all  *)
(* illegal characters and sanitizes to the empty string, 'a.' loses its    *)
(* dot.  The root holds nothing, a directory a, or a directory a with a    *)
(* file in it.                                                             *)
(***************************************************************************)
LeafPaths ==
    { << "/", ":" >>, << "/", "a", "/", ":" >>, << "/", "a", "." >>,
      << "/", "a" >>, << "/", "a", "/", "a" >> }

ArriveWithLeaf(r) ==
    /\ req[r].pc = "idle"
    /\ \E m \in { "POST", "PUT", "DELETE" }, p \in LeafPaths :
          req' = [req EXCEPT ![r] = [IdleRequest EXCEPT !.pc = "route", !.method = m,
                                                           !.path = p,
                                                           !.body = IF m = "PUT" THEN << 7 >> ELSE <<>>,
                                                           !.hasVars = TRUE, !.before = fs]]
    /\ UNCHANGED << options, rootDir, fsExistsThrows, fs, call, host >>

InitLeaves ==
    /\ options = EndpointOptions
    /\ rootDir = PlainRoot
    /\ fsExistsThrows = FALSE
    /\ \E S \in { {}, { << "a" >> }, { << "a" >>, << "a", "/", "a" >> } } :
          fs = [p \in { rootDir } \cup { rootDir \o PathSep \o s : s \in S } |->
                   IF p = rootDir \o PathSep \o << "a", "/", "a" >> THEN File(<< 7 >>) ELSE Dir]
    /\ req = [r \in AllSlots |-> IdleRequest]
    /\ call = IdleCall
    /\ host = IdleHost

NextLeaves ==
    \/ \E r \in Slots : ArriveWithLeaf(r)
    \/ \E r \in Slots : PostStart(r)
    \/ \E r \in Slots : PostAfterExists(r)
    \/ \E r \in Slots : PostMkdirs(r)
    \/ \E r \in Slots : PostStat(r)
    \/ \E r \in Slots : PutStart(r)
    \/ \E r \in Slots : PutAfterExists(r)
    \/ \E r \in Slots : PutStat(r)
    \/ \E r \in Slots : PutAfterDirExists(r)
    \/ \E r \in Slots : PutMkdirs(r)
    \/ \E r \in Slots : PutReadAll(r)
    \/ \E r \in Slots : PutWrite(r)
    \/ \E r \in Slots : PutFinalStat(r)
    \/ \E r \in Slots : DeleteStart(r)
    \/ \E r \in Slots : DeleteAfterExists(r)
    \/ \E r \in Slots : DeleteStat(r)
    \/ \E r \in Slots : DeleteRemove(r)
    \/ \E r \in Slots : DeleteUnlink(r)
    \/ \E r \in Slots : Finish(r)

SpecLeaves == InitLeaves /\ [][NextLeaves]_vars

(***************************************************************************)
(* Properties of the routes                                                *)
(***************************************************************************)
\* the absolute path a request path stands for: its normalized form joined
\* to the root and resolved
ResolvedPath(q) == PathResolve(PathJoin(rootDir, normalizePath(q.path)))

\* the request of q has left the start of its handler
Handled(q) == q.pc \notin { "idle", "route" }

\* C1: for every verb, a request whose path resolves to neither the root nor
\* a path under root + separator is answered 400, once, and no path was
\* passed to a file system call for it.
C1_OutsideIsBadRequest ==
    \A r \in Slots :
        (Handled(req[r]) /\ ~IsWithin(ResolvedPath(req[r]), rootDir))
            => /\ req[r].pc = "done"
               /\ req[r].status = 400
               /\ req[r].sent = 1
               /\ req[r].fsCalls = {}

\* a DELETE of '/..', which climbs above the root, was answered 400
C1_ClimbingDeleteAnswered ==
    \E r \in Slots :
        /\ req[r].pc = "done"
        /\ req[r].method = "DELETE"
        /\ req[r].path = << "/", ".", "." >>
        /\ ~IsWithin(ResolvedPath(req[r]), rootDir)
        /\ req[r].status = 400
        /\ req[r].fsCalls = {}

\* C2: every path a handler passes to a file system call, the request path
\* resolved and its leaf sanitized by SANATIZE_PATH, is the root or lies
\* under root + separator, and no entry outside the root exists that a
\* request created.
C2_FsCallsStayInRoot ==
    /\ \A r \in Slots : \A p \in req[r].fsCalls : IsWithin(p, rootDir)
    /\ \A p \in DOMAIN fs : IsWithin(p, rootDir)

\* C3: POST, PUT and DELETE of a path that resolves to the shared root are
\* answered 400 without a file system call, and the root stays the
\* directory it was.
C3_RootIsNeverATarget ==
    /\ \A r \in Slots :
          (/\ Handled(req[r])
           /\ req[r].method \in { "POST", "PUT", "DELETE" }
           /\ ResolvedPath(req[r]) = rootDir)
              => /\ req[r].pc = "done"
                 /\ req[r].status = 400
                 /\ req[r].fsCalls = {}
    /\ IsDirectory(rootDir)


(***************************************************************************)
(* Properties of the gates.  What each gate is to decide is restated here  *)
(* from the request and the options alone.                                 *)
(***************************************************************************)
GateOrder == << "network", "credential", "write", "root" >>

\* 192.168.1.7 lies in 192.168.0.0/23; 10.0.0.9 lies in neither range
AddressesInRanges == { InsideAddress }

\* the allow-list is not empty and the source address of q is neither the
\* loopback address nor in one of its ranges
NetworkDenies(q) ==
    /\ options.requestValidator.configured
    /\ options.requestValidator.allowed # {}
    /\ q.remoteAddress # Loopback
    /\ q.remoteAddress \notin AddressesInRanges

\* the pair each Authorization header carries: the user name in lower case,
\* no pair at all without a header of the Basic scheme
CredentialsOf(h) ==
    CASE h = BasicEmptyPair -> << <<>>, <<>> >>
      [] h = BasicAA -> << << "a" >>, << "a" >> >>
      [] h = BasicUpperAA -> << << "a" >>, << "a" >> >>
      [] h = BasicAB -> << << "a" >>, << "b" >> >>
      [] h = BasicNoColon -> << << "a" >>, <<>> >>
      [] OTHER -> << Undefined, Undefined >>

\* the account validator is configured and rejects the pair of q
CredentialDenies(q) ==
    /\ options.accountValidator.configured
    /\ CredentialsOf(q.authorization) #
           << options.accountValidator.user, options.accountValidator.password >>

ReadOnlyHost == options.canWrite # JsBoolean(TRUE)

\* the host is read-only and q is of a writing method
WriteDenies(q) == ReadOnlyHost /\ q.method \in { "POST", "PUT", "DELETE", "PATCH" }

IsPrefix(s, t) == Len(s) <= Len(t) /\ \A i \in 1..Len(s) : s[i] = t[i]

\* C4: the gates run in the order network, credential, write, root; a
\* handler runs only after all four have passed; the first gate that fails
\* decides the outcome alone: 401 and not 403 when the credential and the
\* write gate both fail, 403 and not 503 when the write gate fails and the
\* root is missing.
C4_FirstFailingGateDecides ==
    \A r \in Slots :
        LET q == req[r]
        IN /\ IsPrefix(q.passed, GateOrder)
           /\ q.pc = "route" => q.passed = GateOrder
           /\ IsOver(q) =>
                 IF NetworkDenies(q)
                 THEN q.endedBy = "network" /\ q.passed = <<>> /\ q.status = 0
                 ELSE IF CredentialDenies(q)
                 THEN q.endedBy = "credential" /\ q.passed = << "network" >> /\ q.status = 401
                 ELSE IF WriteDenies(q)
                 THEN /\ q.endedBy = "write"
                      /\ q.passed = << "network", "credential" >>
                      /\ q.status = 403
                 ELSE /\ q.endedBy = "root"
                      /\ q.passed = << "network", "credential", "write" >>
                      /\ q.status \in { 0, 503 }

\* a POST with a wrong password to a read-only host whose root is missing
\* was answered 401
C4_WrongPasswordOnReadOnlyHost ==
    \E r \in Slots :
        /\ req[r].pc = "done"
        /\ req[r].method = "POST"
        /\ CredentialDenies(req[r])
        /\ WriteDenies(req[r])
        /\ ~Exists(rootDir)
        /\ req[r].status = 401
        /\ req[r].endedBy = "credential"

C6_ReadOnlyGate ==
    \A r \in Slots :
        LET q == req[r]
        IN (Len(q.passed) >= 2 /\ q.pc # "readOnly") =>
              /\ (ReadOnlyHost /\ q.method \in { "POST", "PUT", "DELETE" }) =>
                    /\ q.pc = "done"
                    /\ q.status = 403
                    /\ q.sent = 1
                    /\ q.passed = << "network", "credential" >>
                    /\ q.rootSeen = "none"
                    /\ q.fsCalls = {}
              /\ q.method = "GET" => (Len(q.passed) >= 3 /\ q.passed[3] = "write")

\* a DELETE was answered 403 by a host whose canWrite is not set
C6_DeleteForbidden ==
    \E r \in Slots :
        /\ req[r].pc = "done"
        /\ req[r].method = "DELETE"
        /\ options.canWrite = JsUndefined
        /\ req[r].passed = << "network", "credential" >>
        /\ req[r].status = 403

\* a request without an Authorization header of the Basic scheme
WithoutCredential(q) == q.authorization \in { Undefined, BearerToken }

\* C7: with an account validator configured, the validator is called for
\* every request that passed the network gate; for a request without a
\* credential it is called with the empty user name and the empty password,
\* and its verdict is the one an explicitly empty pair gets.
C7_MissingCredentialIsEmptyPair ==
    \A r \in Slots :
        LET q == req[r]
        IN (/\ options.accountValidator.configured
            /\ Len(q.passed) >= 1
            /\ q.pc \notin { "headers", "basicAuth" }) =>
              /\ q.validatedWith # <<>>
              /\ WithoutCredential(q) =>
                    /\ q.validatedWith = << <<>>, <<>> >>
                    /\ q.isValid = (<< <<>>, <<>> >> = << options.accountValidator.user,
                                                          options.accountValidator.password >>)

\* realm of the host: the option trimmed, or the default
ExpectedRealm == IF options.realm = << " ", "a" >> THEN << "a" >> ELSE << "node-share-folder" >>

\* C8: a request whose pair the account validator rejects is answered 401
\* with the header WWW-Authenticate: Basic realm=<realm> and passes no
\* further gate; a request whose pair it accepts has exactly that pair as
\* its account and goes on to the next gate.
C8_CredentialGate ==
    \A r \in Slots :
        LET q == req[r]
        IN (/\ options.accountValidator.configured
            /\ Len(q.passed) >= 1
            /\ q.pc \notin { "headers", "basicAuth", "basicAuthAwait" }) =>
              IF CredentialDenies(q)
              THEN /\ q.pc = "done"
                   /\ q.status = 401
                   /\ q.sent = 1
                   /\ { h[2] : h \in { x \in q.headers : x[1] = "WWW-Authenticate" } }
                          = { << "Basic realm=" >> \o ExpectedRealm }
                   /\ q.passed = << "network" >>
                   /\ q.account = NoAccount
                   /\ q.rootSeen = "none"
              ELSE /\ q.account = CredentialsOf(q.authorization)
                   /\ Len(q.passed) >= 2 /\ q.passed[2] = "credential"
                   /\ q.status # 401

\* the pair a:b was rejected by the validator of user a with password a
C8_WrongPasswordChallenged ==
    \E r \in Slots :
        /\ req[r].pc = "done"
        /\ req[r].authorization = BasicAB
        /\ options.accountValidator.user = << "a" >>
        /\ req[r].status = 401
        /\ << "WWW-Authenticate", << "Basic realm=" >> \o ExpectedRealm >> \in req[r].headers

\* C9: a request that passed the first three gates is handed to its handler
\* when the root was a directory as the root check ran, and is answered 503
\* otherwise.
C9_RootGate ==
    \A r \in Slots :
        LET q == req[r]
        IN (Len(q.passed) >= 3 /\ q.pc \notin { "rootCheck", "rootCheckAwait" }) =>
              IF q.rootSeen = "dir"
              THEN q.passed = GateOrder /\ q.status # 503 /\ q.pc # "failed"
              ELSE q.pc = "done" /\ q.status = 503 /\ q.sent = 1

\* C10: a request never gets a second response, and a request that is over
\* with its connection left open has got one, a failed file system call of
\* its handler included.
C10_EveryRequestAnswered ==
    \A r \in Slots :
        /\ req[r].sent <= 1
        /\ (IsOver(req[r]) /\ ~req[r].socketEnded) => (req[r].sent = 1 /\ req[r].status # 0)


(***************************************************************************)
(* Properties of the operations.  A request is about the entry at its     *)
(* resolved path; q.before is the file system as the request found it.    *)
(***************************************************************************)
\* the request path of q stands for an entry of the root other than the root
ContainedNonRoot(q) == IsWithin(ResolvedPath(q), rootDir) /\ ResolvedPath(q) # rootDir

\* an entry was at the resolved path of q as the request arrived
ExistedBefore(q) == ResolvedPath(q) \in DOMAIN q.before

\* C11: a POST of a contained path at which an entry exists, a file or a
\* directory, is answered 409 and the file system is left as it was.  (The
\* root itself is answered 400 by the rule of C3.)
C11_CreateOnExistingIsConflict ==
    \A r \in Slots :
        LET q == req[r]
        IN (/\ q.method = "POST"
            /\ q.pc \notin { "idle", "route", "postExists" }
            /\ ContainedNonRoot(q)
            /\ ExistedBefore(q))
              => /\ q.pc = "done"
                 /\ q.status = 409
                 /\ q.sent = 1
                 /\ fs = q.before

\* a POST of /a, where a file is, was answered 409
C11_CreateOnFileAnswered ==
    \E r \in Slots :
        /\ req[r].pc = "done"
        /\ req[r].method = "POST"
        /\ req[r].path = << "/", "a" >>
        /\ ExistedBefore(req[r])
        /\ req[r].before[ResolvedPath(req[r])].type = "f"
        /\ req[r].status = 409
        /\ fs = req[r].before

\* no entry above the resolved path of q was a file as the request arrived
NoFileAbove(q) ==
    \A p \in DOMAIN q.before :
        (p # ResolvedPath(q) /\ IsWithin(ResolvedPath(q), p)) => q.before[p].type = "d"

\* the response of q is the JSON of one entry of this name and type
AnsweredEntry(q, name, type) ==
    /\ q.pc = "done"
    /\ q.status = 200
    /\ q.sent = 1
    /\ q.respBody[1] = "json"
    /\ q.respBody[2].name = name
    /\ q.respBody[2].type = type

C14_WriteOnDirectoryIsConflict ==
    \A r \in Slots :
        LET q == req[r]
        IN (/\ q.method = "PUT"
            /\ q.pc \notin { "idle", "route", "putExists", "putStat" }
            /\ ContainedNonRoot(q)
            /\ ExistedBefore(q)
            /\ q.before[ResolvedPath(q)].type = "d")
              => /\ q.pc = "done"
                 /\ q.status = 409
                 /\ q.sent = 1
                 /\ fs = q.before

\* a PUT of one byte to /a, a directory that holds an entry, was answered 409
C14_WriteOnFilledDirectory ==
    \E r \in Slots :
        /\ req[r].pc = "done"
        /\ req[r].method = "PUT"
        /\ req[r].path = << "/", "a" >>
        /\ req[r].body = << 7 >>
        /\ IsDirectory(ResolvedPath(req[r]))
        /\ ChildrenOf(ResolvedPath(req[r])) # {}
        /\ req[r].status = 409
        /\ fs = req[r].before

ChildrenBefore(q, p) == { x \in DOMAIN q.before : x # p /\ x # PathSep /\ PathDirname(x) = p }

\* the DirectoryEntry of x as request q found it
EntryBefore(q, x) ==
    [ name |-> PathBasename(x), size |-> Len(q.before[x].data),
      type |-> IF q.before[x].type = "d" THEN DirectoryEntryType_Directory
               ELSE DirectoryEntryType_File ]

\* C16: a GET without info=1 of a contained path is answered 404 when
\* nothing is there; for a directory 200 with a JSON array of exactly one
\* entry for each child right below it, or 204 when it has no children; for
\* a file 200 with its whole content, or 204 when the file is empty.
C16_GetListsOrReads ==
    \A r \in Slots :
        LET q == req[r]
            p == ResolvedPath(q)
            kids == ChildrenBefore(q, p)
        IN (/\ q.method = "GET" /\ ~q.info
            /\ IsOver(q)
            /\ IsWithin(p, rootDir)) =>
              /\ q.pc = "done" /\ q.sent = 1
              /\ IF ~ExistedBefore(q) THEN q.status = 404
                 ELSE IF q.before[p].type = "d"
                 THEN IF kids = {} THEN q.status = 204
                      ELSE /\ q.status = 200
                           /\ q.respBody[1] = "json"
                           /\ Len(q.respBody[2]) = Cardinality(kids)
                           /\ { q.respBody[2][i] : i \in 1..Len(q.respBody[2]) }
                                 = { EntryBefore(q, x) : x \in kids }
                 ELSE IF q.before[p].data = <<>> THEN q.status = 204
                      ELSE q.status = 200 /\ q.respBody = << "raw", q.before[p].data >>

\* the place of a character in the order of names
CharCode(c) ==
    CASE c = "." -> 46 [] c = "A" -> 65 [] c = "B" -> 66
      [] c = "a" -> 97 [] c = "b" -> 98 [] c = "r" -> 114 [] OTHER -> 0

\* s comes before t, or is t, in the order of strings
StringLessEq(s, t) ==
    \/ IsPrefix(s, t)
    \/ \E i \in 1..Len(s) :
          /\ i <= Len(t)
          /\ \A j \in 1..(i - 1) : s[j] = t[j]
          /\ CharCode(s[i]) < CharCode(t[i])

\* entry d may stand before entry e in a listing: directories first, then by
\* the name without regard to case
ListedBefore(d, e) ==
    \/ d.type = DirectoryEntryType_Directory /\ e.type = DirectoryEntryType_File
    \/ d.type = e.type /\ StringLessEq(ToLowerCase(d.name), ToLowerCase(e.name))

\* C17: the JSON array answered for a directory has every Directory before
\* every File and, within each kind, the names ascending without regard to
\* case, in whatever order the file system enumerated the children.
C17_ListingIsSorted ==
    \A r \in Slots :
        LET q == req[r]
        IN (/\ q.method = "GET" /\ ~q.info
            /\ q.pc = "done" /\ q.status = 200
            /\ q.respBody[1] = "json")
              => \A i, j \in 1..Len(q.respBody[2]) :
                    i < j => ListedBefore(q.respBody[2][i], q.respBody[2][j])


\* the steps of the GET handler that enumerate a directory or read a file
EnumerationOrRead == { "getStat", "getReaddir", "getListStat", "getReadFile" }

\* C18: a GET with info=1 of a contained path never enumerates a directory
\* and never reads a file; it is answered 200 with the one entry of that path
\* (its kind, its size and, below the root, its name) when something is
\* there, and 404 when nothing is there.
C18_InfoDescribesPath ==
    \A r \in Slots :
        LET q == req[r]
            p == ResolvedPath(q)
        IN (/\ q.method = "GET" /\ q.info
            /\ Handled(q)
            /\ IsWithin(p, rootDir)) =>
              /\ q.pc \notin EnumerationOrRead
              /\ \A h \in q.headers : h[1] # "x-share-folder-type"
              /\ IsOver(q) =>
                    /\ q.pc = "done" /\ q.sent = 1
                    /\ IF ExistedBefore(q)
                       THEN /\ q.status = 200
                            /\ q.respBody[1] = "json"
                            /\ q.respBody[2].type = EntryBefore(q, p).type
                            /\ q.respBody[2].size = EntryBefore(q, p).size
                            /\ p # rootDir => q.respBody[2].name = PathBasename(p)
                       ELSE q.status = 404


\* request q has passed the existence check of the create-directory handler
PastCreateCheck(q) == q.method = "POST" /\ q.pc \in { "postMkdirs", "postStat" }

\* C19: the existence check of a creation and the creation itself are apart:
\* a POST that has passed the check is never answered 409 afterwards, and
\* when the directory has appeared since (made by another request) its
\* mkdirs changes nothing and the handler goes on to its 200 answer; in the
\* same way a PUT that found no parent directory goes on to read and write
\* when another request has made the parent since.
C19_CheckAndCreateAreApart ==
    [][\A r \in AllSlots :
          /\ PastCreateCheck(req[r]) => ~(req'[r].pc = "done" /\ req'[r].status = 409)
          /\ (/\ req[r].method = "POST" /\ req[r].pc = "postMkdirs"
              /\ IsDirectory(req[r].target)
              /\ req'[r] # req[r])
                => req'[r].pc = "postStat" /\ fs' = fs
          /\ (/\ req[r].method = "PUT" /\ req[r].pc = "putMkdirs"
              /\ IsDirectory(PathDirname(req[r].target))
              /\ req'[r] # req[r])
                => req'[r].pc = "putReadAll" /\ fs' = fs]_vars

\* two POSTs of one path that was absent as each arrived are both answered
\* 200, neither 409
C19_BothCreationsAnswered200 ==
    /\ \A r \in AllSlots :
          /\ req[r].method = "POST"
          /\ req[r].pc = "done" /\ req[r].status = 200 /\ req[r].sent = 1
          /\ ~ExistedBefore(req[r])
    /\ ResolvedPath(req[1]) = ResolvedPath(req[2])

\* a PUT that found its parent directory missing is about to create it, and
\* another request has created it since
C19_ParentCreatedUnderWrite ==
    \E r \in AllSlots :
        /\ req[r].method = "PUT" /\ req[r].pc = "putMkdirs"
        /\ IsDirectory(PathDirname(req[r].target))

\* a PUT is past the check and the creation of its parent directory, and
\* another request has removed the parent since
C19_ParentRemovedUnderWrite ==
    \E r \in AllSlots :
        /\ req[r].method = "PUT" /\ req[r].pc \in { "putReadAll", "putWrite" }
        /\ ~Exists(PathDirname(req[r].target))


\* request q has passed the credential gate
PastCredentialGate(q) == \E i \in 1..Len(q.passed) : q.passed[i] = "credential"

\* C20: under every interleaving of two requests the account in a request's
\* __vars is there only after that request passed the credential gate of a
\* host with an account validator, and it is the pair resolved from the
\* request's own Authorization header, never the pair of the other request;
\* a request past that gate carries the pair of its own header.
C20_AccountIsTheRequestsOwn ==
    \A r \in AllSlots :
        LET q == req[r]
        IN /\ q.account # NoAccount =>
                 /\ q.hasVars
                 /\ options.accountValidator.configured
                 /\ PastCredentialGate(q)
                 /\ q.account = CredentialsOf(q.authorization)
           /\ (PastCredentialGate(q) /\ options.accountValidator.configured) =>
                 q.account = CredentialsOf(q.authorization)

\* one request carries the account of its credentials while the other, with
\* other credentials, waits for the validator's verdict and carries none
C20_AcceptedBesideWaiting ==
    /\ PastCredentialGate(req[1])
    /\ req[1].account = << << "a" >>, << "a" >> >>
    /\ req[2].authorization = BasicAB
    /\ req[2].pc = "basicAuthAwait"
    /\ req[2].hasVars
    /\ req[2].account = NoAccount


\* request q was refused: its connection was closed by the network gate, or
\* it was answered 400, 401, 403 or 503
Refused(q) == q.socketEnded \/ q.status \in { 400, 401, 403, 503 }

\* C21: a request that a gate or the path check refuses is over with that:
\* the step that refuses it leaves the file system as it is, no path was
\* passed to a file system call for it, it is answered at most once (not at
\* all when its connection is closed), and afterwards nothing of its
\* pipeline runs: the request stays as it is until its slot is given up.
C21_RefusalIsTerminal ==
    [][\A r \in Slots :
          /\ (Refused(req'[r]) /\ req'[r] # req[r]) =>
                /\ fs' = fs
                /\ IsOver(req'[r])
                /\ req'[r].fsCalls = {}
                /\ req'[r].sent = IF req'[r].socketEnded THEN 0 ELSE 1
          /\ Refused(req[r]) => req'[r] \in { req[r], IdleRequest }]_vars

\* a write to a path that climbs out of the root was answered 400 on a host
\* that holds a file, and the file system is as the request found it
C21_ClimbingWriteRefused ==
    \E r \in Slots :
        /\ req[r].method = "PUT"
        /\ req[r].pc = "done" /\ req[r].status = 400
        /\ ~IsWithin(ResolvedPath(req[r]), rootDir)
        /\ fs = req[r].before
        /\ Cardinality(DOMAIN fs) > 1


(***************************************************************************)
(* Properties of the client                                                *)
(***************************************************************************)
\* the call got a response and its promise is settled
Answered == call.pc = "settled" /\ Len(call.sent) = 1

\* the response is of the kind the method of the call asks for: a directory
\* for list, a file for download, the JSON of one entry for upload and remove
FittingResponse ==
    CASE call.method = "list" -> call.response.type = << "d" >>
      [] call.method = "download" -> call.response.type = << "f" >>
      [] OTHER -> call.response.statusCode = 200 => call.response.body.kind = "json"

\* C22: for every client method a response with status 400 fails the call
\* with the invalid-path error, 401 with the unauthorized error, 403 with the
\* forbidden error and 404 with the not-found error, four different errors;
\* a 200 (of the kind the method asks for) makes the call succeed with the
\* decoded body and a 204 with an empty result.
C22_StatusDecidesOutcome ==
    Answered =>
        LET code == call.response.statusCode
            out == call.outcome
        IN /\ code = 400 => out.settled = "rejected" /\ out.error = "Invalid path!"
           /\ code = 401 => out.settled = "rejected" /\ out.error = "Unauthorized!"
           /\ code = 403 => out.settled = "rejected" /\ out.error = "Forbidden!"
           /\ code = 404 => out.settled = "rejected" /\ out.error = "Not found!"
           /\ (code = 200 /\ FittingResponse) =>
                 /\ out.settled = "resolved"
                 /\ out.value.t \in { "entries", "entry", "buffer" }
           /\ (code = 204 /\ FittingResponse) =>
                 /\ out.settled = "resolved"
                 /\ out.value.v = <<>>

\* C23: for every client method a response status other than 200, 204, 400,
\* 401, 403, 404 and 409 fails the call with the unexpected-response error
\* that carries the status; a 409 fails the call, an upload with the error
\* that the path is a directory.
C23_OtherStatusIsUnexpected ==
    Answered =>
        LET code == call.response.statusCode
            out == call.outcome
        IN /\ code \notin { 200, 204, 400, 401, 403, 404, 409 } =>
                 /\ out.settled = "rejected"
                 /\ out.error = "Unexpected response"
                 /\ out.code = code
           /\ code = 409 =>
                 /\ out.settled = "rejected"
                 /\ call.method = "upload" => out.error = "Path is a directory!"


\* the entries of the JSON array of a response, as the host encoded them
SentEntries ==
    LET items == call.response.body.text.items
    IN [i \in 1..Len(items) |-> CHOOSE e \in ServerEntries : JSON_stringify(e) = items[i]]

\* seq is a permutation of the sequence of
PermutationOf(seq, of) ==
    /\ Len(seq) = Len(of)
    /\ \E f \in [1..Len(of) -> 1..Len(of)] :
          /\ \A i, j \in 1..Len(of) : i # j => f[i] # f[j]
          /\ \A i \in 1..Len(of) : seq[i] = of[f[i]]

\* a listing was answered with 200 and the array of a directory
ListingAnswered ==
    /\ Answered /\ call.method = "list"
    /\ call.response.statusCode = 200 /\ call.response.type = << "d" >>

\* seq has the Directory entries before the File entries and, within each
\* kind, ascends by key(name)
SortedBy(seq, key(_)) ==
    \A i, j \in 1..Len(seq) :
        i < j =>
            \/ seq[i].type = DirectoryEntryType_Directory /\ seq[j].type = DirectoryEntryType_File
            \/ seq[i].type = seq[j].type /\ StringLessEq(key(seq[i].name), key(seq[j].name))

\* C24 as stated: list returns a permutation of the entries of the response
\* body, Directory entries before File entries and each kind ascending by the
\* name without regard to case, whatever the order they were sent in; for a
\* 204 it returns an empty array.
C24_ListSortsByLowerCaseName ==
    /\ ListingAnswered =>
          /\ call.outcome.settled = "resolved"
          /\ PermutationOf(call.outcome.value.v, SentEntries)
          /\ SortedBy(call.outcome.value.v, ToLowerCase)
    /\ (Answered /\ call.method = "list" /\ call.response.statusCode = 204
           /\ call.response.type = << "d" >>) =>
          call.outcome = ResolvedWith("entries", <<>>)

\* what list does: the same, with each kind ascending by the name in lower
\* case and trimmed of the white space at its ends.
ListSortsByNormalizedName ==
    /\ ListingAnswered =>
          /\ call.outcome.settled = "resolved"
          /\ PermutationOf(call.outcome.value.v, SentEntries)
          /\ SortedBy(call.outcome.value.v, normalizeString)
    /\ (Answered /\ call.method = "list" /\ call.response.statusCode = 204
           /\ call.response.type = << "d" >>) =>
          call.outcome = ResolvedWith("entries", <<>>)

\* a listing sent as [file A, directory b, file ' b'] was returned in another
\* order
UnsortedListingReturned ==
    /\ ListingAnswered
    /\ Len(SentEntries) = 3
    /\ SentEntries[1].type = DirectoryEntryType_File
    /\ SentEntries[2].type = DirectoryEntryType_Directory
    /\ SentEntries[3].name = << " ", "b" >>
    /\ call.outcome.value.v # SentEntries


\* C25: download(path), called with no destination stream, resolves with a
\* Buffer equal to the whole content of the file when the answer is 200, and
\* with an empty Buffer when it is 204.
C25_DownloadResolvesWithContent ==
    (Answered /\ call.method = "download" /\ call.response.type = << "f" >>) =>
        /\ call.response.statusCode = 200 =>
              call.outcome = ResolvedWith("buffer", call.response.body.bytes)
        /\ call.response.statusCode = 204 =>
              call.outcome = ResolvedWith("buffer", <<>>)


\* C26: every request of a client with a configured (user, password) pair
\* carries an Authorization header from which the credential gate of the
\* server extracts that same pair.
C26_CredentialsRoundTrip ==
    (call.account # NoAccount /\ Len(call.sent) = 1) =>
        ExtractCredentials(call.sent[1].authorization) = call.account


\* the call is over for its caller: settled, or left with a failed transport
CallOver == call.pc \in { "settled", "failed" }

\* C27: every call of a client method makes exactly one round trip: the
\* request is sent once and never again, whatever the status of the response
\* and whether or not the transport fails, and every status other than 200
\* and 204 ends the call with an error.
C27_ExactlyOneRoundTrip ==
    /\ Len(call.sent) <= 1
    /\ CallOver =>
          /\ Len(call.sent) = 1
          /\ (call.pc = "settled" /\ call.response.statusCode \notin { 200, 204 }) =>
                call.outcome.settled = "rejected"

\* the part of it that holds: no request is sent twice, and an answered call
\* ends with an error for every status other than 200 and 204
NeverSentTwice ==
    /\ Len(call.sent) <= 1
    /\ (Answered /\ call.response.statusCode \notin { 200, 204 }) =>
          call.outcome.settled = "rejected"


\* the strings of at most MaxPathLen of the characters that matter to
\* normalizePath
ShortStrings ==
    UNION { [1..n -> { "/", "\\", ".", " ", "a" }] : n \in 0..MaxPathLen }

SentEntry == CHOOSE e \in ServerEntries : JSON_stringify(e) = call.response.body.text

\* upload or remove was answered 200 with the JSON text of one entry
EntryAnswered ==
    /\ Answered /\ call.method \in { "upload", "remove" }
    /\ call.response.statusCode = 200
    /\ call.response.body.kind = "json" /\ call.response.body.text.json = "object"

C29_RootPathsAreTheRoot ==
    /\ \A p \in { <<>>, << DOT >>, PathSep } :
          /\ normalizePath(p) = PathSep
          /\ ~IS_OUTSIDE(p)
          /\ ResolvedPath([path |-> p]) = rootDir
    /\ \A r \in Slots :
          LET q == req[r]
          IN (Handled(q) /\ normalizePath(q.path) = PathSep) =>
                /\ q.method = "GET" =>
                      /\ q.target = rootDir
                      /\ rootDir \in q.fsCalls
                      /\ \A c \in q.fsCalls : IsWithin(c, rootDir)
                /\ q.method \in { "POST", "PUT", "DELETE" } =>
                      /\ q.pc = "done" /\ q.status = 400
                      /\ q.fsCalls = {}


\* C31: a GET without info=1 of a contained path at which something exists
\* is answered 200 or 204 with the header x-share-folder-type, whose value is
\* 'd' when the path is a directory and 'f' when it is a file.
C31_GetCarriesEntryType ==
    \A r \in Slots :
        LET q == req[r]
            p == ResolvedPath(q)
        IN (/\ q.method = "GET" /\ ~q.info
            /\ IsOver(q)
            /\ IsWithin(p, rootDir)
            /\ ExistedBefore(q)) =>
              /\ q.pc = "done"
              /\ q.status \in { 200, 204 }
              /\ { h[2] : h \in { x \in q.headers : x[1] = "x-share-folder-type" } }
                    = { << q.before[p].type >> }


\* C32: for a POST, PUT or DELETE of a contained path other than the root,
\* the path the handler works on after the sanitization of the leaf has the
\* parent directory of the resolved request path and a last segment that is
\* not empty; it is neither the root nor that parent directory, also when
\* the leaf sanitizes to the empty string.
C32_SanitizedLeafKeepsParent ==
    \A r \in Slots :
        LET q == req[r]
            p == ResolvedPath(q)
        IN (/\ q.method \in { "POST", "PUT", "DELETE" }
            /\ Handled(q)
            /\ ContainedNonRoot(q)) =>
              /\ q.target # <<>>
              /\ PathDirname(q.target) = PathDirname(p)
              /\ PathBasename(q.target) # <<>>
              /\ q.target \notin { rootDir, PathDirname(p) }
              /\ rootDir \in DOMAIN fs


\* C33: a GET request, whatever its path, its info flag and its outcome,
\* leaves the file system as it found it: from its arrival to its end the
\* entries below the root, their kinds and their contents are those the
\* request found.
C33_GetLeavesFsUnchanged ==
    \A r \in Slots :
        (req[r].method = "GET" /\ req[r].pc # "idle") => fs = req[r].before

\* a GET has read a file that an earlier PUT wrote, and the file is as it was
C33_FileReadAndKept ==
    \E r \in Slots :
        /\ req[r].method = "GET" /\ ~req[r].info
        /\ req[r].pc = "done" /\ req[r].status = 200
        /\ req[r].respBody = << "raw", << 7 >> >>
        /\ fs = req[r].before
        /\ fs[req[r].target] = File(<< 7 >>)


\* the host as the command line constructs it: it always passes a request
\* validator (over --ips) and an account validator (over --user, --password)
CommandLineHost ==
    options.requestValidator.configured /\ options.accountValidator.configured

\* the pair an Authorization header carries, as its sender wrote it
CarriedPair(h) ==
    CASE h = BasicEmptyPair -> << <<>>, <<>> >>
      [] h = BasicAA -> << << "a" >>, << "a" >> >>
      [] h = BasicUpperAA -> << << "A" >>, << "a" >> >>
      [] h = BasicAB -> << << "a" >>, << "b" >> >>
      [] h = BasicNoColon -> << << "a" >>, <<>> >>
      [] OTHER -> << Undefined, Undefined >>

\* the request of q has been decided on by the network and credential gates
PastBothGates(q) ==
    \/ q.pc = "closed"
    \/ q.pc \notin { "idle", "ipCheck", "ipCheckAwait", "headers", "basicAuth", "basicAuthAwait" }

\* C34: a host started by the command line enforces its flags: with --ips
\* the network gate admits only the loopback address and the addresses in
\* the ranges; with --user and --password the credential gate admits only a
\* request that carries exactly that account; and with neither --ips nor an
\* account every request is admitted by both gates, whatever Authorization
\* header it carries.
C34_FlagsAreEnforced ==
    CommandLineHost =>
        \A r \in Slots :
            LET q == req[r]
                admittedByNetwork == q.passed # <<>> /\ q.passed[1] = "network"
                admittedByCredential == Len(q.passed) >= 2 /\ q.passed[2] = "credential"
            IN PastBothGates(q) =>
                  /\ (options.requestValidator.allowed # {} /\ admittedByNetwork) =>
                        q.remoteAddress \in { Loopback } \cup AddressesInRanges
                  /\ (options.accountValidator.user # Undefined /\ admittedByCredential) =>
                        CarriedPair(q.authorization) = << options.accountValidator.user,
                                                           options.accountValidator.password >>
                  /\ (/\ options.requestValidator.allowed = {}
                      /\ options.accountValidator.user = Undefined
                      /\ options.accountValidator.password = Undefined) =>
                        admittedByNetwork /\ admittedByCredential


(***************************************************************************)
(* The lifecycle of the host: start(), stop(), isRunning                   *)
(***************************************************************************)
\* what the completed action is called with as err: null, an Error object,
\* and a falsy value that was thrown
NoError == "null"
FalsyError == ""
ListenErrors == { "EADDRINUSE", "ENOENT" }
IsTruthyError(err) == err # NoError /\ err # FalsyError

\* createCompletedAction(resolve, reject) without its completedInvoked test
COMPLETEDRepeating(c, err, result) ==
    [ c EXCEPT !.completedInvoked = TRUE,
               !.invoked = @ + 1,
               !.settles = @ + 1,
               !.result = IF c.result # "pending" THEN @
                          ELSE IF IsTruthyError(err) THEN "rejected" ELSE result ]

\* createCompletedAction(resolve, reject): the action it returns, applied to
\* the promise of call c. The promise keeps its first settlement.
COMPLETED(c, err, result) ==
    IF c.completedInvoked
    THEN [ c EXCEPT !.invoked = @ + 1 ]
    ELSE [ c EXCEPT !.completedInvoked = TRUE,
                    !.invoked = @ + 1,
                    !.settles = @ + 1,
                    !.result = IF c.result # "pending" THEN @
                               ELSE IF IsTruthyError(err) THEN "rejected" ELSE result ]

\* get isRunning(): !_.isNil(this._server)
isRunning == host._server # NoServer

\* the port of the host is taken by one of its own servers
PortBound == \E s \in Servers : host.servers[s] = "listening"

\* the name of the next server object: one never used, else one that is
\* closed or failed and that no call holds any more
ForgottenServers ==
    { s \in Servers :
        /\ host.servers[s] \in { "none", "closed", "failed" }
        /\ host._server # s
        /\ \A c \in LifecycleCalls : host.calls[c].server # s }
NEW_SERVER ==
    IF \E s \in ForgottenServers : host.servers[s] = "none"
    THEN CHOOSE s \in ForgottenServers :
            /\ host.servers[s] = "none"
            /\ \A t \in ForgottenServers : host.servers[t] = "none" => s <= t
    ELSE CHOOSE s \in ForgottenServers : \A t \in ForgottenServers : s <= t

HostStep(h) ==
    /\ host' = h
    /\ UNCHANGED << options, rootDir, fsExistsThrows, fs, req, call >>

SetCall(c, rec) == [ host EXCEPT !.calls[c] = rec ]

\* start() without the isRunning test
StartCallUnchecked(c) ==
    /\ host.calls[c].pc = "idle"
    /\ ForgottenServers # {}
    /\ LET begun == [ IdleLifecycleCall EXCEPT !.op = "start",
                                               !.sawRunning = isRunning ]
       IN HostStep(SetCall(c, [ begun EXCEPT !.pc = "createInstance" ]))

\* start(): the executor up to its first await
StartCall(c) ==
    /\ host.calls[c].pc = "idle"
    /\ isRunning \/ ForgottenServers # {}
    /\ LET begun == [ IdleLifecycleCall EXCEPT !.op = "start",
                                               !.sawRunning = isRunning ]
       IN IF isRunning
          THEN HostStep(SetCall(c,
                 [ COMPLETED(begun, NoError, "false") EXCEPT !.pc = "settled" ]))
          ELSE HostStep(SetCall(c, [ begun EXCEPT !.pc = "createInstance" ]))

\* start(): createInstance() resolved, serverFactory() is awaited
StartCreated(c) ==
    /\ host.calls[c].pc = "createInstance"
    /\ HostStep(SetCall(c, [ host.calls[c] EXCEPT !.pc = "serverFactory" ]))

\* start(): serverFactory() rejected (a file of options.ssl could not be
\* read); the catch block completes with the error
StartFactoryFailed(c) ==
    /\ host.calls[c].pc = "serverFactory"
    /\ \E e \in ListenErrors :
         HostStep(SetCall(c,
           [ COMPLETED(host.calls[c], e, "false") EXCEPT !.pc = "settled" ]))

\* start(): serverFactory() resolved; NEW_SERVER.once('error', ...) and
\* NEW_SERVER.listen(port, ...). The port is bound at once, or the server
\* fails when one of the host's servers or a stranger holds the port.
StartListen(c) ==
    /\ host.calls[c].pc = "serverFactory"
    /\ ForgottenServers # {}
    /\ \E strangerHoldsPort \in BOOLEAN :
         LET s == NEW_SERVER
             bound == ~PortBound /\ ~strangerHoldsPort
         IN HostStep([ host EXCEPT
                !.servers[s] = IF bound THEN "listening" ELSE "failed",
                !.calls[c] = [ @ EXCEPT !.pc = "listen", !.server = s,
                                        !.onError = TRUE ] ])

\* the callback of listen(): this._server = NEW_SERVER; COMPLETED(null, true)
StartListening(c) ==
    /\ host.calls[c].pc = "listen"
    /\ host.servers[host.calls[c].server] = "listening"
    /\ HostStep([ host EXCEPT
           !._server = host.calls[c].server,
           !.calls[c] = [ COMPLETED(@, NoError, "true") EXCEPT !.pc = "settled" ] ])

\* the 'error' listener of a server that could not listen: COMPLETED(err)
StartListenError(c) ==
    /\ host.calls[c].pc = "listen"
    /\ host.calls[c].onError
    /\ host.servers[host.calls[c].server] = "failed"
    /\ HostStep(SetCall(c,
         [ COMPLETED(host.calls[c], "EADDRINUSE", "false")
             EXCEPT !.pc = "settled", !.onError = FALSE ]))

\* the 'error' listener of a server that emits an error after the callback
\* of listen() ran: COMPLETED(err) once more
ServerErrorLate(c) ==
    /\ host.calls[c].pc = "settled"
    /\ host.calls[c].op = "start"
    /\ host.calls[c].onError
    /\ host.servers[host.calls[c].server] \in { "listening", "closing" }
    /\ \E e \in ListenErrors :
         HostStep(SetCall(c,
           [ COMPLETED(host.calls[c], e, "false") EXCEPT !.onError = FALSE ]))

\* stop(): OLD_SERVER = this._server; nil completes with false, else
\* OLD_SERVER.close(callback), which frees the port at once
StopCall(c) ==
    /\ host.calls[c].pc = "idle"
    /\ LET begun == [ IdleLifecycleCall EXCEPT !.op = "stop",
                                               !.sawRunning = isRunning ]
           OLD_SERVER == host._server
       IN IF OLD_SERVER = NoServer
          THEN HostStep(SetCall(c,
                 [ COMPLETED(begun, NoError, "false") EXCEPT !.pc = "settled" ]))
          ELSE HostStep([ host EXCEPT
                 !.servers[OLD_SERVER] =
                     IF @ = "listening" THEN "closing" ELSE @,
                 !.calls[c] = [ begun EXCEPT !.pc = "closing",
                                             !.server = OLD_SERVER ] ])

\* the 'close' event of a server whose connections have ended: every
\* callback given to close() runs: this._server = null; COMPLETED(null, true)
ServerClosed(s) ==
    /\ host.servers[s] = "closing"
    /\ HostStep([ host EXCEPT
           !.servers[s] = "closed",
           !._server = NoServer,
           !.calls = [ c \in LifecycleCalls |->
                         IF host.calls[c].pc = "closing" /\ host.calls[c].server = s
                         THEN [ COMPLETED(host.calls[c], NoError, "true")
                                  EXCEPT !.pc = "settled" ]
                         ELSE host.calls[c] ] ])

\* the caller has seen how the promise settled and lets go of it
LifecycleReturn(c) ==
    /\ host.calls[c].pc = "settled"
    /\ HostStep(SetCall(c, IdleLifecycleCall))

InitLifecycle ==
    /\ options = EndpointOptions
    /\ rootDir = PlainRoot
    /\ fsExistsThrows = FALSE
    /\ fs = [ p \in { PlainRoot } |-> Dir ]
    /\ req = [ r \in AllSlots |-> IdleRequest ]
    /\ call = IdleCall
    /\ host = IdleHost

LifecycleStep(c) ==
    \/ StartCreated(c)
    \/ StartFactoryFailed(c)
    \/ StartListen(c)
    \/ StartListening(c)
    \/ StartListenError(c)
    \/ ServerErrorLate(c)
    \/ LifecycleReturn(c)

\* calls of start() and stop() made whenever the caller likes
NextLifecycle ==
    \/ \E c \in LifecycleCalls : StartCall(c) \/ StopCall(c) \/ LifecycleStep(c)
    \/ \E s \in Servers : ServerClosed(s)

SpecLifecycle == InitLifecycle /\ [][NextLifecycle]_vars

\* calls made one after another: the next call is made when the promise of
\* the one before has settled and was let go
NoCallInProgress == \A c \in LifecycleCalls : host.calls[c].pc = "idle"

NextSequential ==
    \/ \E c \in LifecycleCalls :
         \/ NoCallInProgress /\ StartCall(c)
         \/ NoCallInProgress /\ StopCall(c)
         \/ LifecycleStep(c)
    \/ \E s \in Servers : ServerClosed(s)

SpecSequential == InitLifecycle /\ [][NextSequential]_vars


(***************************************************************************)
(* Properties of the lifecycle                                             *)
(***************************************************************************)
\* the servers of this host that hold the port
OwnListeners == { s \in Servers : host.servers[s] = "listening" }

\* C35: for calls made one after another, a settled start() on a stopped
\* host resolved true with the host running on the one listener it created,
\* or rejected with the host still stopped; a settled start() on a running
\* host resolved false and the one listener is the one the host had; a
\* settled stop() on a running host resolved true with the host stopped and
\* no listener left; a settled stop() on a stopped host resolved false.
C35_SequentialLifecycle ==
    /\ Cardinality(OwnListeners) <= 1
    /\ \A c \in LifecycleCalls :
         LET k == host.calls[c]
         IN k.pc = "settled" =>
              /\ (k.op = "start" /\ ~k.sawRunning) =>
                    \/ /\ k.result = "true"
                       /\ isRunning
                       /\ host._server = k.server
                       /\ OwnListeners = { k.server }
                    \/ /\ k.result = "rejected"
                       /\ ~isRunning
                       /\ OwnListeners = {}
              /\ (k.op = "start" /\ k.sawRunning) =>
                    /\ k.result = "false"
                    /\ isRunning
                    /\ OwnListeners = { host._server }
              /\ (k.op = "stop" /\ k.sawRunning) =>
                    /\ k.result = "true"
                    /\ ~isRunning
                    /\ OwnListeners = {}
              /\ (k.op = "stop" /\ ~k.sawRunning) =>
                    /\ k.result = "false"
                    /\ ~isRunning

\* a host that was stopped has been started again
C35_StartedAgain ==
    \E c \in LifecycleCalls : \E t \in Servers :
        /\ host.calls[c].pc = "settled"
        /\ host.calls[c].op = "start"
        /\ host.calls[c].result = "true"
        /\ host.calls[c].server # t
        /\ host.servers[t] = "closed"
        /\ isRunning


\* no start() or stop() is on its way
AllSettled == \A c \in LifecycleCalls : host.calls[c].pc \in { "idle", "settled" }

\* C36: whatever the interleaving of overlapping start() and stop() calls,
\* once all calls have settled isRunning is true exactly when a server of
\* this host is listening, at most one is, and the host refers to it.
C36_SettledHostMatchesListeners ==
    AllSettled =>
       /\ isRunning <=> OwnListeners # {}
       /\ Cardinality(OwnListeners) <= 1
       /\ OwnListeners \subseteq { host._server }


\* what a completed action can be called with
CompletedErrors == { NoError, FalsyError } \cup ListenErrors
CompletedResults == { "true", "false" }

\* C37: the action returned by createCompletedAction calls resolve or
\* reject at most once: the first invocation rejects for a truthy error
\* and resolves with the result otherwise, a later invocation changes
\* nothing, and no promise of start() or stop() is settled twice.
C37_SettlesAtMostOnce ==
    /\ \A e1, e2 \in CompletedErrors : \A r1, r2 \in CompletedResults :
         LET once == COMPLETED(IdleLifecycleCall, e1, r1)
             twice == COMPLETED(once, e2, r2)
         IN /\ once.settles = 1
            /\ once.result = IF IsTruthyError(e1) THEN "rejected" ELSE r1
            /\ twice = [ once EXCEPT !.invoked = 2 ]
    /\ \A c \in LifecycleCalls :
         LET k == host.calls[c]
         IN /\ k.settles <= 1
            /\ k.completedInvoked <=> k.invoked >= 1
            /\ k.settles = 1 <=> k.result # "pending"
            /\ k.invoked >= 1 => k.settles = 1

\* a server emitted an error after start() had resolved true: the completed
\* action ran twice and the promise is still resolved with true
C37_ErrorAfterListening ==
    \E c \in LifecycleCalls :
        /\ host.calls[c].op = "start"
        /\ host.calls[c].invoked = 2
        /\ host.calls[c].settles = 1
        /\ host.calls[c].result = "true"

====
